---- MODULE Spec2Model ----
(***************************************************************************)
(* a11y-robot: the accessibility issue detection and aggregation pipeline. *)
(*                                                                         *)
(* The module models                                                       *)
(*   - StaticAnalyzer.analyzeHtmlTemplate and its callers                  *)
(*     (src/src/analyzers/static-analyzer.ts),                             *)
(*   - DynamicAnalyzer.convertAxeResults and its helpers                   *)
(*     (src/src/analyzers/dynamic-analyzer.ts),                            *)
(*   - the tool handlers of A11yRobotServer and the result list they       *)
(*     share (src/src/server/a11y-robot-server.ts).                        *)
(*                                                                         *)
(* Strings the code builds by interpolation or join are tuples of their    *)
(* parts; a tag of the auditor is the tuple of its characters, because the *)
(* code counts characters in it; every text field of an issue is such a    *)
(* tuple. A missing attribute or argument is Undefined; an optional field  *)
(* the code does not set (selector, file, projectPath, url) is absent from *)
(* the record. The timestamp of a result (new Date()) takes no part in any *)
(* decision of the code and is left out of the result records.             *)
(***************************************************************************)
EXTENDS Integers, Sequences, FiniteSets, TLC

VARIABLES
    analysisResults,  \* A11yRobotServer.analysisResults
    lastCall,         \* what the last tool call returned or threw
    reportInput,      \* the results the last report call merged
    combinedResult,   \* the combinedResult the last report call built
    content,          \* the markup handed to analyzeHtmlTemplate
    htmlIssues,       \* what analyzeHtmlTemplate returned for content
    htmlPc,           \* "ready" before the call, "done" after it
    axeResults,       \* the raw audit output handed to convertAxeResults
    axeIssues,        \* what convertAxeResults returned for axeResults
    axePc,            \* "ready" before the call, "done" after it
    ruleElement,      \* the element the predicates of the rules are applied to
    ruleCall,         \* the last lookup or predicate call on the catalog
    browser,          \* DynamicAnalyzer.browser: a browser, or NoObject for null
    context,          \* DynamicAnalyzer.context: a context, or NoObject for null
    browsers,         \* the browsers chromium.launch created, open or closed
    contexts,         \* the contexts browser.newContext created, open or closed
    pageHandles,      \* the pages context.newPage opened, open or closed
    calls,            \* the analyzeDynamicAccessibility calls: where each is, its locals
    srcFile,          \* the stylesheet or component source handed to its analysis
    srcIssues,        \* what analyzeCssFile or analyzeTypeScriptFile returned for it
    srcPc,            \* "ready" before the call, "done" after it
    clock,            \* Date.now(), in hours
    cacheFile,        \* .cache/wcag/guidelines.json
    guidelines,       \* WcagService.guidelines
    cacheLoaded,      \* WcagService.cacheLoaded
    wcagCall,         \* what the last getGuidelines call returned, and when
    report            \* the generateAccessibilityReport call in flight

vars == <<analysisResults, lastCall, reportInput, combinedResult,
          content, htmlIssues, htmlPc, axeResults, axeIssues, axePc,
          ruleElement, ruleCall, browser, context, browsers, contexts, pageHandles,
          calls, srcFile, srcIssues, srcPc,
          clock, cacheFile, guidelines, cacheLoaded, wcagCall, report>>

serverVars == <<analysisResults, lastCall, reportInput, combinedResult>>
htmlVars == <<content, htmlIssues, htmlPc>>
axeVars == <<axeResults, axeIssues, axePc>>
rulesVars == <<ruleElement, ruleCall>>
dynVars == <<browser, context, browsers, contexts, pageHandles, calls>>
fileVars == <<srcFile, srcIssues, srcPc>>
wcagVars == <<clock, cacheFile, guidelines, cacheLoaded, wcagCall>>
reportVars == <<report>>

-----------------------------------------------------------------------------
(* Bounds of the model.                                                    *)

\* longest markup document (elements in document order) of SpecHtml
MaxElems == 3
\* most violations in one raw audit output of SpecAxe
MaxViolations == 2
\* most affected nodes of one raw violation of SpecAxe
MaxNodes == 2
\* most results the server accumulates before the model stops analysing
MaxResults == 2
\* most secondary pages of one dynamic analysis, taken step by step
MaxPages == 2
\* most dynamic analyses, taken step by step, one server is asked for
MaxCalls == 2
\* longest stylesheet (selectors and declarations) of SpecFile
MaxTokens == 3
\* most dynamic analyses one server is asked for while static analyses and
\* reports run between their steps
MaxServerCalls == 1
\* most *ngFor occurrences of one component source of SpecFile
MaxNgFors == 2
\* the hours a process of SpecWcag is followed for
MaxHours == 30

-----------------------------------------------------------------------------
(* Values shared by the components.                                        *)

\* an attribute, property or field that is absent (JavaScript undefined)
Undefined == "<undefined>"

\* AccessibilityIssue.severity
Severities == {"critical", "serious", "moderate", "minor"}

\* the success criteria the static checks name, as their characters
Criterion111 == <<"1", ".", "1", ".", "1">>
Criterion131 == <<"1", ".", "3", ".", "1">>
Criterion243 == <<"2", ".", "4", ".", "3">>
Criterion247 == <<"2", ".", "4", ".", "7">>

\* JavaScript truthiness of a string-or-undefined value
Truthy(v) == v # Undefined /\ v # ""

RECURSIVE Concat(_)
\* [].push(...a) over a sequence of sequences, in order
Concat(seqs) ==
    IF seqs = <<>> THEN <<>> ELSE Head(seqs) \o Concat(Tail(seqs))

\* the sequences over S of length at most n
SeqsUpTo(S, n) == UNION {[1..k -> S] : k \in 0..n}

-----------------------------------------------------------------------------
(* Markup documents: the elements of the parsed tree in document order.    *)

Element(tag, alt, src, type, id, for, ariaLabel, ariaLabelledby) ==
    [tag |-> tag, alt |-> alt, src |-> src, type |-> type, id |-> id,
     for |-> for, ariaLabel |-> ariaLabel, ariaLabelledby |-> ariaLabelledby]

Img(alt, src) ==
    Element("img", alt, src, Undefined, Undefined, Undefined, Undefined, Undefined)

Control(tag, type, id, ariaLabel, ariaLabelledby) ==
    Element(tag, Undefined, Undefined, type, id, Undefined, ariaLabel, ariaLabelledby)

Label(for) ==
    Element("label", Undefined, Undefined, Undefined, Undefined, for, Undefined, Undefined)

Heading(tag) ==
    Element(tag, Undefined, Undefined, Undefined, Undefined, Undefined, Undefined, Undefined)

HeadingTags == {"h1", "h2", "h3", "h4", "h5", "h6"}

\* the input types the selector of the label check names
TextLikeTypes == {"text", "email", "password", "number", "tel", "url"}

\* the elements the documents of the model are made of
Elements ==
    {Img(Undefined, "a.png"), Img(Undefined, Undefined), Img("", Undefined),
     Img("logo", "a.png")}
    \cup
    {Control("input", "text", Undefined, Undefined, Undefined),
     Control("input", "text", Undefined, "Name", Undefined),
     Control("input", "text", Undefined, "", Undefined),
     Control("input", "email", "name", Undefined, Undefined),
     Control("input", "text", "", Undefined, Undefined),
     Control("input", "checkbox", Undefined, Undefined, Undefined),
     Control("input", Undefined, Undefined, Undefined, Undefined),
     Control("textarea", Undefined, Undefined, Undefined, "lbl"),
     Control("select", Undefined, "other", Undefined, Undefined)}
    \cup
    {Label("name"), Label("")}
    \cup
    {Heading(t) : t \in HeadingTags}

Documents == SeqsUpTo(Elements, MaxElems)

\* the file name the markup of SpecHtml is analysed under
HtmlFile == <<"index", ".html">>

-----------------------------------------------------------------------------
(* StaticAnalyzer.analyzeHtmlTemplate                                      *)

\* $('img'): every img element, in document order
SelectImgs(doc) == SelectSeq(doc, LAMBDA e : e.tag = "img")

\* $('input[type="text"], ..., textarea, select'), in document order
SelectControls(doc) ==
    SelectSeq(doc, LAMBDA e : \/ e.tag = "input" /\ e.type \in TextLikeTypes
                              \/ e.tag \in {"textarea", "select"})

\* $('h1, h2, h3, h4, h5, h6').toArray()
SelectHeadings(doc) == SelectSeq(doc, LAMBDA e : e.tag \in HeadingTags)

\* $(`label[for="${id}"]`).length > 0
HasLabelFor(doc, id) == \E i \in 1..Len(doc) : doc[i].tag = "label" /\ doc[i].for = id

\* a faulty variant of ImgLacksAlt: an empty alt counts as a missing one
ImgLacksAltFalsy(alt) == ~Truthy(alt)

\* alt === undefined
ImgLacksAlt(alt) == alt = Undefined

ImgAltIssue(index, img, filePath) ==
    [id |-> <<"img-alt", index>>,
     rule |-> "Images must have alt attributes",
     severity |-> "serious",
     wcagLevel |-> "A",
     wcagCriterion |-> Criterion111,
     description |-> <<"Image elements must have an alt attribute to provide alternative text for screen readers.">>,
     helpText |-> <<"Add an alt attribute that describes the image content or use alt=\"\" for decorative images.">>,
     wcagUrl |-> <<"https://www.w3.org/TR/WCAG20/#text-equiv-all">>,
     element |-> IF Truthy(img.src) THEN <<"<img src=\"", img.src, "\">">> ELSE <<"<img>">>,
     selector |-> <<"img">>,
     file |-> filePath,
     source |-> "static"]

\* the first .each(): one issue per img without an alt attribute
ImgAltCheck(doc, filePath) ==
    LET imgs == SelectImgs(doc)
        all == [i \in 1..Len(imgs) |->
                   [flagged |-> ImgLacksAlt(imgs[i].alt),
                    issue |-> ImgAltIssue(i - 1, imgs[i], filePath)]]
        hit == SelectSeq(all, LAMBDA c : c.flagged)
    IN  [k \in 1..Len(hit) |-> hit[k].issue]

\* const type = $input.attr('type') || $input.prop('tagName')?.toLowerCase() || 'input'
ControlType(el) == IF Truthy(el.type) THEN el.type ELSE el.tag

\* let hasLabel = false; if (id) { hasLabel = $(`label[for="${id}"]`).length > 0 }
HasLabel(doc, id) == IF Truthy(id) THEN HasLabelFor(doc, id) ELSE FALSE

\* !hasLabel && !ariaLabel && !ariaLabelledby
ControlLacksName(doc, el) ==
    /\ ~HasLabel(doc, el.id)
    /\ ~Truthy(el.ariaLabel)
    /\ ~Truthy(el.ariaLabelledby)

InputLabelIssue(index, el, filePath) ==
    [id |-> <<"input-label", index>>,
     rule |-> "Form inputs must have labels",
     severity |-> "serious",
     wcagLevel |-> "A",
     wcagCriterion |-> Criterion131,
     description |-> <<"Form input elements must have associated labels to be accessible to screen readers.">>,
     helpText |-> <<"Add a <label> element with a \"for\" attribute matching the input's id, or use aria-label or aria-labelledby.">>,
     wcagUrl |-> <<"https://www.w3.org/TR/WCAG20/#content-structure-separation-programmatic">>,
     element |-> <<"<", ControlType(el), ">">>,
     selector |-> <<ControlType(el)>>,
     file |-> filePath,
     source |-> "static"]

\* the second .each(): one issue per text-like control without a name
InputLabelCheck(doc, filePath) ==
    LET inputs == SelectControls(doc)
        all == [i \in 1..Len(inputs) |->
                   [flagged |-> ControlLacksName(doc, inputs[i]),
                    issue |-> InputLabelIssue(i - 1, inputs[i], filePath)]]
        hit == SelectSeq(all, LAMBDA c : c.flagged)
    IN  [k \in 1..Len(hit) |-> hit[k].issue]

\* parseInt(tagName.charAt(1)) of a tag h1..h6
HeadingLevel(tagName) ==
    CASE tagName = "h1" -> 1
      [] tagName = "h2" -> 2
      [] tagName = "h3" -> 3
      [] tagName = "h4" -> 4
      [] tagName = "h5" -> 5
      [] tagName = "h6" -> 6

\* currentLevel > previousLevel + 1
HeadingSkipped(currentLevel, previousLevel) == currentLevel > previousLevel + 1

\* a faulty variant of NextPreviousLevel: a flagged heading leaves previousLevel alone
NextPreviousLevelUnlessFlagged(previousLevel, currentLevel) ==
    IF HeadingSkipped(currentLevel, previousLevel) THEN previousLevel ELSE currentLevel

\* previousLevel = currentLevel
NextPreviousLevel(previousLevel, currentLevel) == currentLevel

\* let previousLevel = 0
InitialPreviousLevel == 0

HeadingIssue(index, tagName, previousLevel, filePath) ==
    [id |-> <<"heading-hierarchy", index>>,
     rule |-> "Heading levels should not be skipped",
     severity |-> "moderate",
     wcagLevel |-> "AA",
     wcagCriterion |-> Criterion131,
     description |-> <<"Heading levels should be used in sequential order without skipping levels.">>,
     helpText |-> <<"Use h", previousLevel + 1, " instead of h", HeadingLevel(tagName),
                    " to maintain proper heading hierarchy.">>,
     wcagUrl |-> <<"https://www.w3.org/TR/WCAG20/#content-structure-separation-programmatic">>,
     element |-> <<"<", tagName, ">">>,
     selector |-> <<tagName>>,
     file |-> filePath,
     source |-> "static"]

RECURSIVE HeadingLoop(_, _, _, _)
\* headings.forEach((element, index) => ...) from position index + 1 on
HeadingLoop(headings, index, previousLevel, filePath) ==
    IF index >= Len(headings) THEN <<>>
    ELSE LET tagName == headings[index + 1].tag
             currentLevel == HeadingLevel(tagName)
             found == IF HeadingSkipped(currentLevel, previousLevel)
                      THEN <<HeadingIssue(index, tagName, previousLevel, filePath)>>
                      ELSE <<>>
         IN  found \o HeadingLoop(headings, index + 1,
                                  NextPreviousLevel(previousLevel, currentLevel), filePath)

HeadingCheck(doc, filePath) ==
    HeadingLoop(SelectHeadings(doc), 0, InitialPreviousLevel, filePath)

\* analyzeHtmlTemplate(content, filePath)
AnalyzeHtmlTemplate(doc, filePath) ==
    ImgAltCheck(doc, filePath) \o InputLabelCheck(doc, filePath) \o HeadingCheck(doc, filePath)

-----------------------------------------------------------------------------
(* Raw audit output: what page.evaluate(() => axe.run()) hands back.       *)

TagWcag2a == <<"w", "c", "a", "g", "2", "a">>
TagWcag2aa == <<"w", "c", "a", "g", "2", "a", "a">>
TagWcag2aaa == <<"w", "c", "a", "g", "2", "a", "a", "a">>
TagWcag111 == <<"w", "c", "a", "g", "1", "1", "1">>
TagWcag143 == <<"w", "c", "a", "g", "1", "4", "3">>
TagCatAria == <<"c", "a", "t", ".", "a", "r", "i", "a">>
TagBestPractice == <<"b", "e", "s", "t", "-", "p", "r", "a", "c", "t", "i", "c", "e">>
TagDotted412 == <<"4", ".", "1", ".", "2">>

\* ids of the affected nodes, in the order the auditor lists them
NodeNames == <<"n1", "n2", "n3", "n4", "n5", "n6">>

\* the k-th affected node of a violation; even nodes sit inside a frame
NodeAt(k) ==
    [html |-> <<"<div id=\"", NodeNames[k], "\">">>,
     target |-> IF k % 2 = 0 THEN <<"iframe", NodeNames[k]>> ELSE <<NodeNames[k]>>]

\* the node lists of the model: the first n affected nodes, n up to MaxNodes
NodeLists == {[k \in 1..n |-> NodeAt(k)] : n \in 0..MaxNodes}

Violation(id, impact, tags, nodes) ==
    [id |-> id, impact |-> impact, tags |-> tags,
     description |-> <<"Ensures ", id>>,
     help |-> <<"Fix ", id>>,
     helpUrl |-> <<"https://dequeuniversity.com/rules/axe/4.8/", id>>,
     nodes |-> nodes]

\* the violations of the model: every impact the auditor reports, one it
\* does not ("blocker") and a missing one; tag lists with and without a
\* WCAG tag and a dotted criterion
ViolationKinds ==
    {<<"image-alt", "critical", <<TagCatAria, TagWcag2a, TagWcag111>>>>,
     <<"color-contrast", "serious", <<TagWcag2aa, TagWcag143>>>>,
     <<"region", "moderate", <<TagBestPractice>>>>,
     <<"aria-roles", "minor", <<TagDotted412, TagWcag2aaa>>>>,
     <<"custom-rule", "blocker", <<TagWcag111>>>>,
     <<"label", Undefined, <<>>>>}

Violations == {Violation(k[1], k[2], k[3], n) : k \in ViolationKinds, n \in NodeLists}

\* the raw outputs of the model; violations may be missing altogether
AxeOutputs ==
    {[url |-> "http://localhost:4200/", violations |-> v] :
        v \in SeqsUpTo(Violations, MaxViolations)}
    \cup {[url |-> "http://localhost:4200/"]}

-----------------------------------------------------------------------------
(* DynamicAnalyzer.convertAxeResults and its helpers                       *)

\* a faulty variant of MapAxeSeverity: no default, an unknown impact passes through
MapAxeSeverityNoDefault(impact) == impact

\* mapAxeSeverity(impact)
MapAxeSeverity(impact) ==
    CASE impact = "critical" -> "critical"
      [] impact = "serious" -> "serious"
      [] impact = "moderate" -> "moderate"
      [] impact = "minor" -> "minor"
      [] OTHER -> "minor"

\* tag.startsWith('wcag')
StartsWithWcag(tag) ==
    Len(tag) >= 4 /\ SubSeq(tag, 1, 4) = <<"w", "c", "a", "g">>

Digits == {"0", "1", "2", "3", "4", "5", "6", "7", "8", "9"}

\* tag.match(/^\d+\.\d+\.\d+$/)
MatchesCriterion(tag) ==
    LET dots == {i \in 1..Len(tag) : tag[i] = "."}
    IN  /\ Cardinality(dots) = 2
        /\ \A i \in (1..Len(tag)) \ dots : tag[i] \in Digits
        /\ 1 \notin dots /\ Len(tag) \notin dots
        /\ \A i \in dots : i + 1 \notin dots

\* tags.find(tag => tag.startsWith('wcag')) as the index of the first such
\* tag, 0 when there is none
FindWcagTag(tags) ==
    IF \E i \in 1..Len(tags) : StartsWithWcag(tags[i])
    THEN CHOOSE i \in 1..Len(tags) :
             StartsWithWcag(tags[i]) /\ \A j \in 1..(i - 1) : ~StartsWithWcag(tags[j])
    ELSE 0

\* tags.find(tag => tag.match(/^\d+\.\d+\.\d+$/)) as the index of the first
\* such tag, 0 when there is none
FindCriterionTag(tags) ==
    IF \E i \in 1..Len(tags) : MatchesCriterion(tags[i])
    THEN CHOOSE i \in 1..Len(tags) :
             MatchesCriterion(tags[i]) /\ \A j \in 1..(i - 1) : ~MatchesCriterion(tags[j])
    ELSE 0

TextUnknown == <<"U", "n", "k", "n", "o", "w", "n">>

\* extractWcagInfo(tags)
ExtractWcagInfo(tags) ==
    LET w == FindWcagTag(tags)
    IN  IF w # 0
        THEN LET parts == tags[w]
                 level == Len(SelectSeq(parts, LAMBDA p : p = "a"))
                 c == FindCriterionTag(tags)
             IN  [level |-> IF level = 1 THEN "A" ELSE IF level = 2 THEN "AA" ELSE "AAA",
                  criterion |-> IF c # 0 THEN tags[c] ELSE TextUnknown]
        ELSE [level |-> "AA", criterion |-> TextUnknown]

RECURSIVE Join(_, _)
\* target.join(sep)
Join(target, sep) ==
    IF Len(target) = 0 THEN <<>>
    ELSE IF Len(target) = 1 THEN <<target[1]>>
    ELSE <<target[1], sep>> \o Join(Tail(target), sep)

\* the issue pushed for one node of one violation
AxeIssue(violation, index, node, nodeIndex) ==
    [id |-> <<"axe", violation.id, index, nodeIndex>>,
     rule |-> violation.id,
     severity |-> MapAxeSeverity(violation.impact),
     wcagLevel |-> ExtractWcagInfo(violation.tags).level,
     wcagCriterion |-> ExtractWcagInfo(violation.tags).criterion,
     description |-> violation.description,
     helpText |-> violation.help,
     wcagUrl |-> violation.helpUrl,
     element |-> node.html,
     selector |-> Join(node.target, ", "),
     source |-> "dynamic"]

\* a faulty variant of ViolationIssues: one issue per violation, for its first node
ViolationIssuesFirstNode(violation, index) ==
    IF Len(violation.nodes) = 0 THEN <<>>
    ELSE <<AxeIssue(violation, index, violation.nodes[1], 0)>>

\* violation.nodes.forEach((node, nodeIndex) => issues.push(...))
ViolationIssues(violation, index) ==
    [k \in 1..Len(violation.nodes) |->
        AxeIssue(violation, index, violation.nodes[k], k - 1)]

\* convertAxeResults(axeResults, _url); if (axeResults.violations) { ... }
ConvertAxeResults(results) ==
    IF "violations" \notin DOMAIN results THEN <<>>
    ELSE Concat([i \in 1..Len(results.violations) |->
                    ViolationIssues(results.violations[i], i - 1)])

-----------------------------------------------------------------------------
(* StaticAnalyzer: files, analyzeFile, analyze.                            *)
(*                                                                         *)
(* A stylesheet is the sequence of its selectors and declarations; a       *)
(* component source is the set of framework markers it holds, its inline   *)
(* template (a document, when it has one) and its *ngFor occurrences.      *)

\* content.includes(selector) for one of ':focus', ':focus-visible', ':focus-within'
CssHasFocusStyles(css) ==
    \E i \in 1..Len(css) : css[i] \in {":focus", ":focus-visible", ":focus-within"}

\* content.includes('outline')
CssIncludesOutline(css) ==
    \E i \in 1..Len(css) : css[i] \in {"outline: none", "outline:none", "outline: 0"}

\* content.match(/outline\s*:\s*none/g)
CssOutlineNoneMatches(css) ==
    SelectSeq(css, LAMBDA t : t \in {"outline: none", "outline:none"})

OutlineNoneIssue(filePath) ==
    [id |-> <<"outline-none-focus">>,
     rule |-> "Do not remove focus indicators without replacement",
     severity |-> "serious",
     wcagLevel |-> "AA",
     wcagCriterion |-> Criterion247,
     description |-> <<"Removing focus indicators without providing alternative focus styles makes it difficult for keyboard users to navigate.">>,
     helpText |-> <<"If you remove the default outline, provide alternative focus styles using :focus or :focus-visible.">>,
     wcagUrl |-> <<"https://www.w3.org/TR/WCAG20/#navigation-mechanisms-focus-visible">>,
     element |-> <<"outline: none">>,
     file |-> filePath,
     source |-> "static"]

\* a faulty variant of AnalyzeCssFile: one issue for every declaration found
AnalyzeCssFilePerMatch(css, filePath) ==
    IF ~CssHasFocusStyles(css) /\ CssIncludesOutline(css)
    THEN [k \in 1..Len(CssOutlineNoneMatches(css)) |-> OutlineNoneIssue(filePath)]
    ELSE <<>>

\* analyzeCssFile(content, filePath)
AnalyzeCssFile(css, filePath) ==
    IF ~CssHasFocusStyles(css) /\ CssIncludesOutline(css)
    THEN IF CssOutlineNoneMatches(css) # <<>> THEN <<OutlineNoneIssue(filePath)>> ELSE <<>>
    ELSE <<>>

\* a faulty variant of IsAngularComponent: only the decorator counts
IsAngularComponentDecoratorOnly(ts) == "@Component" \in ts.markers

\* isAngularComponent(content)
IsAngularComponent(ts) ==
    \/ "@Component" \in ts.markers
    \/ "templateUrl" \in ts.markers
    \/ "styleUrls" \in ts.markers

\* match.includes('trackBy')
IncludesTrackBy(match) == match = "*ngFor=\"let item of items; trackBy: trackById\""

NgForIssue(index, match, filePath) ==
    [id |-> <<"ngfor-trackby", index>>,
     rule |-> "*ngFor should use trackBy for performance and accessibility",
     severity |-> "minor",
     wcagLevel |-> "AA",
     wcagCriterion |-> Criterion243,
     description |-> <<"Using trackBy in *ngFor helps screen readers maintain context when list items change.">>,
     helpText |-> <<"Add trackBy function to *ngFor directive to improve performance and accessibility.">>,
     wcagUrl |-> <<"https://www.w3.org/TR/WCAG20/#navigation-mechanisms-focus-order">>,
     element |-> <<match>>,
     file |-> filePath,
     source |-> "static"]

\* ngForMatches.forEach((match, index) => ...)
NgForCheck(ngFors, filePath) ==
    LET all == [i \in 1..Len(ngFors) |->
                   [flagged |-> ~IncludesTrackBy(ngFors[i]),
                    issue |-> NgForIssue(i - 1, ngFors[i], filePath)]]
        hit == SelectSeq(all, LAMBDA c : c.flagged)
    IN  [k \in 1..Len(hit) |-> hit[k].issue]

\* analyzeTypeScriptFile(content, filePath)
AnalyzeTypeScriptFile(ts, filePath) ==
    IF IsAngularComponent(ts)
    THEN (IF ts.hasTemplate THEN AnalyzeHtmlTemplate(ts.template, filePath) ELSE <<>>)
         \o NgForCheck(ts.ngFors, filePath)
    ELSE <<>>

\* path.extname(filePath).toLowerCase()
ExtName(filePath) ==
    CASE filePath.ext \in {".html", ".HTML"} -> ".html"
      [] filePath.ext \in {".ts", ".TS"} -> ".ts"
      [] filePath.ext \in {".css", ".CSS"} -> ".css"
      [] filePath.ext \in {".scss", ".SCSS"} -> ".scss"
      [] OTHER -> filePath.ext

\* path.relative(projectPath, filePath) of a file glob found under projectPath
PathRelative(projectPath, filePath) ==
    IF filePath.dir = projectPath THEN <<filePath.name, filePath.ext>>
    ELSE <<"..", filePath.dir, filePath.name, filePath.ext>>

\* $(`label[for="${id}"]`) throws for an id that ends the quoted value of
\* the selector early: the selector cannot be parsed
SelectorThrows(id) == Truthy(id) /\ id \in {"a\"b"}

\* analyzeHtmlTemplate(content, filePath) throws: the label selector of one
\* of the controls cannot be parsed
HtmlTemplateThrows(doc) ==
    \E i \in 1..Len(doc) :
        /\ \/ doc[i].tag = "input" /\ doc[i].type \in TextLikeTypes
           \/ doc[i].tag \in {"textarea", "select"}
        /\ SelectorThrows(doc[i].id)

\* the analysis of a file that was read throws
AnalysisThrows(extension, fileContent) ==
    CASE extension = ".html" -> HtmlTemplateThrows(fileContent)
      [] extension = ".ts" ->
             /\ "@Component" \in fileContent.markers
                    \/ "templateUrl" \in fileContent.markers
                    \/ "styleUrls" \in fileContent.markers
             /\ fileContent.hasTemplate
             /\ HtmlTemplateThrows(fileContent.template)
      [] OTHER -> FALSE

\* a faulty variant of AnalyzeFile: the issues found before the analysis of
\* a file threw are kept
AnalyzeFileKeepsPartial(file, projectPath) ==
    LET relativePath == PathRelative(projectPath, file.path)
        extension == ExtName(file.path)
    IN  IF ~file.readable THEN <<>>
        ELSE CASE extension = ".html" /\ HtmlTemplateThrows(file.content) ->
                      ImgAltCheck(file.content, relativePath)
               [] extension = ".html" -> AnalyzeHtmlTemplate(file.content, relativePath)
               [] extension = ".ts" -> AnalyzeTypeScriptFile(file.content, relativePath)
               [] extension \in {".scss", ".css"} -> AnalyzeCssFile(file.content, relativePath)
               [] OTHER -> <<>>

\* analyzeFile(filePath, projectPath); a file that cannot be read makes
\* fs.readFile throw, and the analysis of its content may throw: the catch
\* turns either into no issues
AnalyzeFile(file, projectPath) ==
    LET relativePath == PathRelative(projectPath, file.path)
        extension == ExtName(file.path)
    IN  IF ~file.readable THEN <<>>
        ELSE IF AnalysisThrows(extension, file.content) THEN <<>>
        ELSE CASE extension = ".html" -> AnalyzeHtmlTemplate(file.content, relativePath)
               [] extension = ".ts" -> AnalyzeTypeScriptFile(file.content, relativePath)
               [] extension \in {".scss", ".css"} -> AnalyzeCssFile(file.content, relativePath)
               [] OTHER -> <<>>

RECURSIVE Dedupe(_)
\* [...new Set(allFiles)]: the first occurrence of each file, in order
Dedupe(files) ==
    IF files = <<>> THEN <<>>
    ELSE LET rest == Dedupe(SubSeq(files, 1, Len(files) - 1))
             last == files[Len(files)]
         IN  IF \E i \in 1..Len(rest) : rest[i] = last THEN rest ELSE Append(rest, last)

\* findFiles(projectPath, includePatterns, excludePatterns): project.globbed
\* holds what glob returns for each include pattern
FindFiles(project) == Dedupe(Concat(project.globbed))

\* the switch of StaticAnalyzer.calculateSummary
StaticCalculateSummary(issues) ==
    [total |-> Len(issues),
     critical |-> Len(SelectSeq(issues, LAMBDA i : i.severity = "critical")),
     serious |-> Len(SelectSeq(issues, LAMBDA i : i.severity = "serious")),
     moderate |-> Len(SelectSeq(issues, LAMBDA i : i.severity = "moderate")),
     minor |-> Len(SelectSeq(issues, LAMBDA i : i.severity = "minor"))]

RECURSIVE SharedBaselineLoop(_, _, _, _)
\* the files from position k on, analysed with a heading baseline that is
\* kept from file to file
SharedBaselineLoop(project, files, k, previousLevel) ==
    IF k > Len(files) THEN <<>>
    ELSE LET file == project.files[files[k]]
             relativePath == PathRelative(project.projectPath, file.path)
             markup == /\ file.readable
                       /\ ExtName(file.path) = ".html"
                       /\ ~HtmlTemplateThrows(file.content)
             headings == IF markup THEN SelectHeadings(file.content) ELSE <<>>
             issues == IF markup
                       THEN ImgAltCheck(file.content, relativePath)
                            \o InputLabelCheck(file.content, relativePath)
                            \o HeadingLoop(headings, 0, previousLevel, relativePath)
                       ELSE AnalyzeFile(file, project.projectPath)
             last == IF headings = <<>> THEN previousLevel
                     ELSE HeadingLevel(headings[Len(headings)].tag)
         IN  issues \o SharedBaselineLoop(project, files, k + 1, last)

\* a faulty variant of StaticAnalyze: previousLevel is a field of the
\* analyzer, set once, so that a file starts from the last heading of the
\* file before it
StaticAnalyzeSharedBaseline(project) ==
    IF project.globError # Undefined
    THEN [ok |-> FALSE, error |-> project.globError]
    ELSE LET allIssues == SharedBaselineLoop(project, FindFiles(project), 1,
                                             InitialPreviousLevel)
         IN  [ok |-> TRUE,
              result |-> [issues |-> allIssues,
                          summary |-> StaticCalculateSummary(allIssues),
                          analysisType |-> "static",
                          projectPath |-> project.projectPath]]

\* StaticAnalyzer.analyze(options): the result, or the error glob threw
StaticAnalyze(project) ==
    IF project.globError # Undefined
    THEN [ok |-> FALSE, error |-> project.globError]
    ELSE LET files == FindFiles(project)
             allIssues == Concat([i \in 1..Len(files) |->
                                     AnalyzeFile(project.files[files[i]], project.projectPath)])
         IN  [ok |-> TRUE,
              result |-> [issues |-> allIssues,
                          summary |-> StaticCalculateSummary(allIssues),
                          analysisType |-> "static",
                          projectPath |-> project.projectPath]]

-----------------------------------------------------------------------------
(* DynamicAnalyzer.analyze, as one call: a run names what loading and      *)
(* auditing each page gives.                                               *)

\* a faulty variant of DynamicCalculateSummary: the switch without its last case
DynamicCalculateSummaryNoMinor(issues) ==
    [total |-> Len(issues),
     critical |-> Len(SelectSeq(issues, LAMBDA i : i.severity = "critical")),
     serious |-> Len(SelectSeq(issues, LAMBDA i : i.severity = "serious")),
     moderate |-> Len(SelectSeq(issues, LAMBDA i : i.severity = "moderate")),
     minor |-> 0]

\* the switch of DynamicAnalyzer.calculateSummary
DynamicCalculateSummary(issues) ==
    [total |-> Len(issues),
     critical |-> Len(SelectSeq(issues, LAMBDA i : i.severity = "critical")),
     serious |-> Len(SelectSeq(issues, LAMBDA i : i.severity = "serious")),
     moderate |-> Len(SelectSeq(issues, LAMBDA i : i.severity = "moderate")),
     minor |-> Len(SelectSeq(issues, LAMBDA i : i.severity = "minor"))]

\* the secondary pages that were analysed; a failed one is logged and skipped
SecondaryIssues(pages) ==
    Concat([i \in 1..Len(pages) |->
               IF pages[i].ok THEN ConvertAxeResults(pages[i].axe) ELSE <<>>])

\* DynamicAnalyzer.analyze(options): the result, or the error it rethrows
DynamicAnalyze(run) ==
    IF run.launchError # Undefined
    THEN [ok |-> FALSE, error |-> run.launchError]
    ELSE IF ~run.primary.ok
    THEN [ok |-> FALSE, error |-> run.primary.error]
    ELSE LET allIssues == ConvertAxeResults(run.primary.axe) \o SecondaryIssues(run.pages)
         IN  [ok |-> TRUE,
              result |-> [issues |-> allIssues,
                          summary |-> DynamicCalculateSummary(allIssues),
                          analysisType |-> "dynamic",
                          url |-> run.url]]

-----------------------------------------------------------------------------
(* The rule catalog (src/src/rules/index.ts). A rule is known by its       *)
(* position in allRules; an element handed to a predicate is a DOM element *)
(* with the properties and attributes the predicates read.                 *)

Criterion412 == <<"4", ".", "1", ".", "2">>
Criterion211 == <<"2", ".", "1", ".", "1">>
Criterion143 == <<"1", ".", "4", ".", "3">>
Criterion141 == <<"1", ".", "4", ".", "1">>

Rule(id, name, wcagCriterion, wcagLevel, severity, category) ==
    [id |-> id, name |-> name, wcagCriterion |-> wcagCriterion,
     wcagLevel |-> wcagLevel, severity |-> severity, category |-> category]

\* htmlRules
HtmlRules ==
    <<Rule("img-alt", "Images must have alt attributes",
           Criterion111, "A", "serious", "html"),
      Rule("form-labels", "Form inputs must have labels",
           Criterion131, "A", "serious", "html"),
      Rule("button-name", "Buttons must have accessible names",
           Criterion412, "A", "serious", "html"),
      Rule("heading-hierarchy", "Heading levels should not be skipped",
           Criterion131, "AA", "moderate", "semantic")>>

\* a faulty variant of AriaRules: the first rule was copied from htmlRules
\* and kept the id of the original
AriaRulesCopiedId ==
    <<Rule("button-name", "Elements with ARIA roles must have accessible names",
           Criterion412, "A", "serious", "aria"),
      Rule("aria-expanded", "Expandable elements should have aria-expanded",
           Criterion412, "A", "moderate", "aria")>>

\* ariaRules
AriaRules ==
    <<Rule("aria-labels", "Elements with ARIA roles must have accessible names",
           Criterion412, "A", "serious", "aria"),
      Rule("aria-expanded", "Expandable elements should have aria-expanded",
           Criterion412, "A", "moderate", "aria")>>

\* angularRules
AngularRules ==
    <<Rule("ngfor-trackby", "*ngFor should use trackBy for accessibility",
           Criterion243, "AA", "minor", "angular"),
      Rule("angular-focus-management",
           "Angular components should manage focus appropriately",
           Criterion243, "AA", "moderate", "angular")>>

\* keyboardRules
KeyboardRules ==
    <<Rule("keyboard-focus", "Interactive elements must be keyboard accessible",
           Criterion211, "A", "serious", "keyboard"),
      Rule("focus-visible", "Focus indicators must be visible",
           Criterion247, "AA", "serious", "keyboard")>>

\* colorRules
ColorRules ==
    <<Rule("color-contrast", "Text must have sufficient color contrast",
           Criterion143, "AA", "serious", "color"),
      Rule("color-only-info", "Information should not be conveyed by color alone",
           Criterion141, "A", "moderate", "color")>>

\* allRules = [...htmlRules, ...ariaRules, ...angularRules, ...keyboardRules, ...colorRules]
AllRules == HtmlRules \o AriaRules \o AngularRules \o KeyboardRules \o ColorRules

\* ruleRegistry after allRules.forEach(rule => ruleRegistry.set(rule.id, rule)):
\* one entry per id, holding the rule that was set last under it
RuleRegistry ==
    [id \in {AllRules[i].id : i \in 1..Len(AllRules)} |->
        CHOOSE i \in 1..Len(AllRules) :
            /\ AllRules[i].id = id
            /\ \A j \in (i + 1)..Len(AllRules) : AllRules[j].id # id]

\* getRuleById(id): the position of the rule in allRules, 0 for undefined
GetRuleById(id) == IF id \in DOMAIN RuleRegistry THEN RuleRegistry[id] ELSE 0

\* allRules.filter(rule => rule[field] === value), as positions in allRules
FilterRules(field, value) ==
    SelectSeq([i \in 1..Len(AllRules) |-> i], LAMBDA i : AllRules[i][field] = value)

\* getRulesByCategory(category)
GetRulesByCategory(category) == FilterRules("category", category)

\* getRulesByWcagLevel(level)
GetRulesByWcagLevel(level) == FilterRules("wcagLevel", level)

\* getRulesBySeverity(severity)
GetRulesBySeverity(severity) == FilterRules("severity", severity)

DomElement(tagName, type, attributes, id, textContent, role, ariaControls, tabIndex) ==
    [tagName |-> tagName, type |-> type, attributes |-> attributes, id |-> id,
     textContent |-> textContent, role |-> role, ariaControls |-> ariaControls,
     tabIndex |-> tabIndex]

\* element.hasAttribute(name)
HasAttribute(element, name) == name \in element.attributes

\* element.textContent?.trim()
TrimmedText(element) == IF element.textContent \in {" ", "\n  "} THEN "" ELSE element.textContent

\* the ids for which document.querySelector(`label[for="${id}"]`) finds a label
LabelledIds == {"name"}

\* element.textContent?.trim() || element.hasAttribute('aria-label') ||
\* element.hasAttribute('aria-labelledby'), as the truthiness of its value
HasAccessibleName(element) ==
    \/ Truthy(TrimmedText(element))
    \/ HasAttribute(element, "aria-label")
    \/ HasAttribute(element, "aria-labelledby")

\* rule.check(element) of the rule with the given id, as the truthiness of
\* the value it returns
RuleCheck(id, element) ==
    CASE id = "img-alt" -> element.tagName = "IMG" /\ HasAttribute(element, "alt")
      [] id = "form-labels" ->
             IF element.tagName = "INPUT" /\ element.type \in TextLikeTypes
             THEN \/ HasAttribute(element, "aria-label")
                  \/ HasAttribute(element, "aria-labelledby")
                  \/ Truthy(element.id) /\ element.id \in LabelledIds
             ELSE TRUE
      [] id = "button-name" ->
             IF element.tagName = "BUTTON" THEN HasAccessibleName(element) ELSE TRUE
      [] id = "aria-labels" ->
             IF /\ Truthy(element.role)
                /\ element.role \in {"button", "link", "menuitem", "option", "tab", "treeitem"}
             THEN HasAccessibleName(element)
             ELSE TRUE
      [] id = "aria-expanded" ->
             IF element.role = "button" /\ Truthy(element.ariaControls)
             THEN HasAttribute(element, "aria-expanded")
             ELSE TRUE
      [] id = "keyboard-focus" ->
             IF element.tagName \in {"A", "BUTTON", "INPUT", "SELECT", "TEXTAREA"}
             THEN element.tabIndex # -1 \/ HasAttribute(element, "tabindex")
             ELSE TRUE
      [] OTHER -> TRUE

\* the elements the predicates of the model are applied to
RuleElements ==
    {DomElement("IMG", Undefined, {"src", "alt"}, "", "", Undefined, Undefined, -1),
     DomElement("IMG", Undefined, {"src"}, "", "", Undefined, Undefined, -1),
     DomElement("INPUT", "text", {"aria-label"}, "", "", Undefined, Undefined, 0),
     DomElement("INPUT", "text", {}, "", "", Undefined, Undefined, 0),
     DomElement("INPUT", "email", {"id", "type"}, "name", "", Undefined, Undefined, 0),
     DomElement("INPUT", "tel", {"id", "type"}, "other", "", Undefined, Undefined, 0),
     DomElement("INPUT", "checkbox", {"type", "tabindex"}, "", "", Undefined, Undefined, -1),
     DomElement("BUTTON", "submit", {}, "", "Save", Undefined, Undefined, 0),
     DomElement("BUTTON", "submit", {}, "", "\n  ", Undefined, Undefined, 0),
     DomElement("BUTTON", "submit", {"aria-labelledby", "tabindex"}, "", "", Undefined,
                Undefined, -1),
     DomElement("DIV", Undefined, {"role"}, "", "Menu", "button", Undefined, -1),
     DomElement("DIV", Undefined, {"role", "aria-controls"}, "", " ", "button", "panel", -1),
     DomElement("DIV", Undefined, {"role", "aria-controls", "aria-expanded", "aria-label"},
                "", "", "button", "panel", -1),
     DomElement("SPAN", Undefined, {"role"}, "", "", "tab", Undefined, -1),
     DomElement("SPAN", Undefined, {"role"}, "", "", "note", Undefined, -1),
     DomElement("A", Undefined, {"href"}, "", "Home", Undefined, Undefined, 0),
     DomElement("P", Undefined, {}, "", "Text", Undefined, Undefined, -1)}

\* the ids, categories, levels and severities the lookups are made with: those
\* of the catalog and one it does not hold
LookupIds == {AllRules[i].id : i \in 1..Len(AllRules)} \cup {"no-such-rule"}
LookupCategories == {"html", "aria", "angular", "keyboard", "color", "semantic", "css"}
LookupLevels == {"A", "AA", "AAA"}

-----------------------------------------------------------------------------
(* A11yRobotServer: the tool handlers and the results they accumulate.     *)

\* a faulty variant of SeverityCompare: the operands of the subtraction swapped
SeverityCompareSwapped(a, b) ==
    LET severityOrder == [critical |-> 0, serious |-> 1, moderate |-> 2, minor |-> 3]
    IN  severityOrder[b.severity] - severityOrder[a.severity]

\* (a, b) => severityOrder[a.severity] - severityOrder[b.severity]
SeverityCompare(a, b) ==
    LET severityOrder == [critical |-> 0, serious |-> 1, moderate |-> 2, minor |-> 3]
    IN  severityOrder[a.severity] - severityOrder[b.severity]

\* a faulty variant of StaysBefore: an unstable sort, an equal element moves ahead
StaysBeforeStrict(a, x) == SeverityCompare(a, x) < 0

\* Array.prototype.sort is stable: an element a that precedes x stays
\* before it unless the comparator orders x first
StaysBefore(a, x) == SeverityCompare(a, x) <= 0

RECURSIVE InsertOrdered(_, _)
\* x placed behind the last element of a sorted list that stays before it
InsertOrdered(sorted, x) ==
    IF sorted = <<>> THEN <<x>>
    ELSE IF StaysBefore(sorted[Len(sorted)], x) THEN Append(sorted, x)
    ELSE Append(InsertOrdered(SubSeq(sorted, 1, Len(sorted) - 1), x), sorted[Len(sorted)])

RECURSIVE SortBySeverity(_)
\* allIssues.sort((a, b) => severityOrder[a.severity] - severityOrder[b.severity])
SortBySeverity(issues) ==
    IF issues = <<>> THEN <<>>
    ELSE InsertOrdered(SortBySeverity(SubSeq(issues, 1, Len(issues) - 1)),
                       issues[Len(issues)])

\* A11yRobotServer.calculateSummary(issues)
ServerCalculateSummary(issues) ==
    [total |-> Len(issues),
     critical |-> Len(SelectSeq(issues, LAMBDA i : i.severity = "critical")),
     serious |-> Len(SelectSeq(issues, LAMBDA i : i.severity = "serious")),
     moderate |-> Len(SelectSeq(issues, LAMBDA i : i.severity = "moderate")),
     minor |-> Len(SelectSeq(issues, LAMBDA i : i.severity = "minor"))]

\* this.analysisResults.forEach(result => allIssues.push(...result.issues))
MergeIssues(results) == Concat([i \in 1..Len(results) |-> results[i].issues])

\* The arrays generateAccessibilityReport works on, by identity: array i
\* is the issues array of this.analysisResults[i - 1], and array 0 is the
\* array `const allIssues = []` creates
AllIssuesArray == 0

\* the arrays after the forEach: push(...result.issues) copies the elements
\* of every issues array into allIssues and leaves the issues arrays alone
MergedArrays(results) ==
    [a \in 0..Len(results) |->
        IF a = AllIssuesArray THEN MergeIssues(results) ELSE results[a].issues]

\* a faulty variant of SortedArray: the issues array of the first result is
\* sorted in place
SortedArrayOfFirstResult == AllIssuesArray + 1

\* the array Array.prototype.sort is called on, which it reorders in place
SortedArray == AllIssuesArray

\* the arrays after allIssues.sort(...)
ArraysAfterSort(results) ==
    [MergedArrays(results) EXCEPT ![SortedArray] = SortBySeverity(@)]

\* this.analysisResults once the merge and the sort have run
ResultsAfterAggregate(results) ==
    [i \in 1..Len(results) |-> [results[i] EXCEPT !.issues = ArraysAfterSort(results)[i]]]

\* a faulty variant of Aggregate: the counts are the sums of the summaries
\* of the results instead of the counts of the merged list
AggregateSumsSummaries(results) ==
    LET allIssues == ArraysAfterSort(results)[AllIssuesArray]
        Sum(field) == Len(Concat([i \in 1..Len(results) |->
                                     [n \in 1..results[i].summary[field] |-> field]]))
    IN  [issues |-> allIssues,
         summary |-> [total |-> Sum("total"), critical |-> Sum("critical"),
                      serious |-> Sum("serious"), moderate |-> Sum("moderate"),
                      minor |-> Sum("minor")],
         analysisType |-> "static"]

\* the combinedResult generateAccessibilityReport builds from the results
Aggregate(results) ==
    LET allIssues == ArraysAfterSort(results)[AllIssuesArray]
    IN  [issues |-> allIssues,
         summary |-> ServerCalculateSummary(allIssues),
         analysisType |-> "static"]

\* a faulty variant of NoResultsAvailable: the guard left out
NoResultsAvailableNever(results) == FALSE

\* this.analysisResults.length === 0
NoResultsAvailable(results) == Len(results) = 0

NoResultsMessage ==
    "No analysis results available. Please run static or dynamic analysis first."

\* a faulty variant of ReportFailure: the cause is dropped from the message
ReportFailureNoCause(cause) == <<"Report generation failed: ", "unknown error">>

\* new Error(`Report generation failed: ${error.message}`)
ReportFailure(cause) == <<"Report generation failed: ", cause>>

\* new Error(`Static analysis failed: ${error.message}`)
StaticFailure(cause) == <<"Static analysis failed: ", cause>>

\* new Error(`Dynamic analysis failed: ${error.message}`)
DynamicFailure(cause) == <<"Dynamic analysis failed: ", cause>>

\* what ReportGenerator.generate does with a combined result: it writes the
\* report and returns its path, or throws
RendererOutcomes ==
    {[ok |-> TRUE], [ok |-> FALSE, error |-> "EACCES: permission denied, open 'report.html'"]}

Returned(tool) == [tool |-> tool, status |-> "ok", message |-> <<>>, rendered |-> FALSE]

Threw(tool, message) ==
    [tool |-> tool, status |-> "error", message |-> message, rendered |-> FALSE]

-----------------------------------------------------------------------------
(* The projects and the pages the tool calls of the model are made on.     *)

FilePath(dir, name, ext) == [dir |-> dir, name |-> name, ext |-> ext]

\* the files of a project, by the name glob returns
ProjectFiles(dir) ==
    [index |-> [path |-> FilePath(dir, "src/index", ".html"), readable |-> TRUE,
                content |-> <<Img(Undefined, "a.png"), Heading("h1"), Heading("h3"),
                              Control("input", "text", Undefined, Undefined, Undefined)>>],
     broken |-> [path |-> FilePath(dir, "src/broken", ".html"), readable |-> FALSE,
                 content |-> <<>>],
     styles |-> [path |-> FilePath(dir, "src/styles", ".CSS"), readable |-> TRUE,
                 content |-> <<"button", "outline: none">>],
     app |-> [path |-> FilePath(dir, "src/app.component", ".ts"), readable |-> TRUE,
              content |-> [markers |-> {"@Component"}, hasTemplate |-> TRUE,
                           template |-> <<Img(Undefined, Undefined), Img("", "b.png")>>,
                           ngFors |-> <<"*ngFor=\"let item of items; trackBy: trackById\"",
                                        "*ngFor=\"let item of items\"">>]],
     readme |-> [path |-> FilePath(dir, "README", ".md"), readable |-> TRUE,
                 content |-> <<>>],
     quoted |-> [path |-> FilePath(dir, "src/quoted", ".html"), readable |-> TRUE,
                 content |-> <<Img(Undefined, "q.png"),
                               Control("input", "text", "a\"b", Undefined, Undefined)>>],
     about |-> [path |-> FilePath(dir, "src/about", ".html"), readable |-> TRUE,
                content |-> <<Heading("h2"), Heading("h3")>>],
     theme |-> [path |-> FilePath(dir, "src/theme", ".css"), readable |-> TRUE,
                content |-> <<":focus", "outline: none">>]]

StaticProject(dir, globbed, globError) ==
    [projectPath |-> dir, globbed |-> globbed, globError |-> globError,
     files |-> ProjectFiles(dir)]

\* a project with every kind of file (default patterns: ts, html, scss,
\* css), among them one that cannot be read and one whose analysis throws,
\* one with no file, one analysed with overlapping patterns, and one
\* whose directory glob cannot read
Projects ==
    {StaticProject("/app", <<<<"app">>, <<"index", "broken", "quoted">>, <<>>, <<"styles">>>>,
                   Undefined),
     StaticProject("/empty", <<<<>>, <<>>, <<>>, <<>>>>, Undefined),
     StaticProject("/docs", <<<<"index">>, <<"index", "readme">>>>, Undefined),
     StaticProject("/denied", <<>>, "EACCES: permission denied, scandir '/denied'")}
    \cup
    \* one directory analysed with different include patterns: its markup
    \* before its stylesheets, the other way round, and one file alone
    {StaticProject("/site", <<<<"index", "about">>, <<"styles", "theme">>>>, Undefined),
     StaticProject("/site", <<<<"theme", "styles">>, <<"about", "index">>>>, Undefined),
     StaticProject("/site", <<<<"about">>>>, Undefined)}

PageOk(violations) ==
    [ok |-> TRUE, axe |-> [url |-> "http://localhost:4200/", violations |-> violations]]

PageFailed(error) == [ok |-> FALSE, error |-> error]

DynamicRun(url, launchError, primary, pages) ==
    [url |-> url, launchError |-> launchError, primary |-> primary, pages |-> pages]

\* the violations of the pages of the model
OnePage ==
    <<Violation("color-contrast", "serious", <<TagWcag2aa, TagWcag143>>, <<NodeAt(1)>>),
      Violation("image-alt", "critical", <<TagCatAria, TagWcag2a, TagWcag111>>, <<NodeAt(2)>>)>>

OtherPage ==
    <<Violation("custom-rule", "blocker", <<TagWcag111>>, <<NodeAt(1), NodeAt(2)>>),
      Violation("region", "moderate", <<TagBestPractice>>, <<NodeAt(3)>>)>>

\* a page alone, a page with a failing and a working secondary page, a page
\* without violations, a primary page that cannot be loaded, a browser that
\* cannot be launched, and for every kind of violation a page with just it
DynamicRuns ==
    {DynamicRun("http://localhost:4200/", Undefined, PageOk(OnePage), <<>>),
     DynamicRun("http://localhost:4200/home", Undefined, PageOk(OtherPage),
                <<PageFailed("Timeout 30000ms exceeded."), PageOk(OnePage)>>),
     DynamicRun("http://localhost:4200/about", Undefined, PageOk(<<>>), <<>>),
     DynamicRun("http://localhost:9/", Undefined,
                PageFailed("net::ERR_CONNECTION_REFUSED at http://localhost:9/"), <<>>),
     DynamicRun("http://localhost:4200/", "browserType.launch: Executable doesn't exist",
                PageOk(<<>>), <<>>)}
    \cup
    {DynamicRun("http://localhost:4200/form", Undefined,
                PageOk(<<Violation(k[1], k[2], k[3], <<NodeAt(1)>>)>>), <<>>) :
        k \in ViolationKinds}

-----------------------------------------------------------------------------
(* The tool calls.                                                         *)

InitServer ==
    /\ analysisResults = <<>>
    /\ lastCall = [tool |-> "none", status |-> "none", message |-> <<>>, rendered |-> FALSE]
    /\ reportInput = <<>>
    /\ combinedResult = [built |-> FALSE]

\* analyzeStaticAccessibility(options) on one project: the result is pushed
\* to analysisResults, or the error is wrapped and thrown
StaticCallSettles(project) ==
    /\ LET outcome == StaticAnalyze(project)
       IN  IF outcome.ok
           THEN /\ analysisResults' = Append(analysisResults, outcome.result)
                /\ lastCall' = Returned("analyze_static_accessibility")
           ELSE /\ analysisResults' = analysisResults
                /\ lastCall' = Threw("analyze_static_accessibility",
                                     StaticFailure(outcome.error))
    /\ UNCHANGED <<reportInput, combinedResult, htmlVars, axeVars, rulesVars, dynVars,
                   fileVars, wcagVars, reportVars>>

\* analyzeStaticAccessibility(options)
AnalyzeStaticAccessibility ==
    /\ Len(analysisResults) < MaxResults
    /\ \E project \in Projects : StaticCallSettles(project)

\* analyzeDynamicAccessibility(options)
AnalyzeDynamicAccessibility ==
    /\ Len(analysisResults) < MaxResults
    /\ \E run \in DynamicRuns :
         LET outcome == DynamicAnalyze(run)
         IN  IF outcome.ok
             THEN /\ analysisResults' = Append(analysisResults, outcome.result)
                  /\ lastCall' = Returned("analyze_dynamic_accessibility")
             ELSE /\ analysisResults' = analysisResults
                  /\ lastCall' = Threw("analyze_dynamic_accessibility",
                                       DynamicFailure(outcome.error))
    /\ UNCHANGED <<reportInput, combinedResult, htmlVars, axeVars, rulesVars, dynVars,
                   fileVars, wcagVars, reportVars>>

\* generateAccessibilityReport(options)
GenerateAccessibilityReport ==
    /\ reportInput' = analysisResults
    /\ IF NoResultsAvailable(analysisResults)
       THEN /\ combinedResult' = [built |-> FALSE]
            /\ lastCall' = Threw("generate_accessibility_report",
                                 ReportFailure(NoResultsMessage))
       ELSE /\ combinedResult' = [built |-> TRUE, result |-> Aggregate(analysisResults)]
            /\ \E rendering \in RendererOutcomes :
                 lastCall' =
                     IF rendering.ok
                     THEN [Returned("generate_accessibility_report") EXCEPT !.rendered = TRUE]
                     ELSE [Threw("generate_accessibility_report",
                                 ReportFailure(rendering.error)) EXCEPT !.rendered = TRUE]
    /\ analysisResults' = ResultsAfterAggregate(analysisResults)
    /\ UNCHANGED <<htmlVars, axeVars, rulesVars, dynVars, fileVars, wcagVars, reportVars>>

-----------------------------------------------------------------------------
(* DynamicAnalyzer.analyze step by step: one step per await of analyze,    *)
(* analyzePage and cleanup, for the calls analyzeDynamicAccessibility      *)
(* makes on the one DynamicAnalyzer of the server. A step is the           *)
(* resolution or rejection of the awaited operation together with the code *)
(* that runs up to the next await. The browser of call c is browser c, its *)
(* context is context c (newContext is called on the browser the same step *)
(* has just assigned); a page is known by the call and the position of its *)
(* url (0 the primary url).                                                *)

Calls == 1..MaxCalls

\* null, for this.browser and this.context
NoObject == 0

ErrLaunch == "browserType.launch: Failed to launch chromium"
ErrNewContext == "browser.newContext: Target page, context or browser has been closed"
ErrNewPage == "context.newPage: Target page, context or browser has been closed"
ErrAudit == "page.goto: Timeout 30000ms exceeded."
ErrPageClose == "page.close: Protocol error (Target.closeTarget)"
ErrNotInitialized == "Browser context not initialized"

\* the violations the auditor finds on the page at a position
PageViolations(k) == IF k % 2 = 0 THEN OnePage ELSE OtherPage

\* this.convertAxeResults(axeResults, url) for the page at a position
PageIssues(k) ==
    ConvertAxeResults([url |-> "http://localhost:4200/", violations |-> PageViolations(k)])

\* a call that was not made yet
IdleCall ==
    [pc |-> "idle", pageCount |-> 0, pageIndex |-> 0, awaited |-> NoObject,
     analysed |-> <<>>, allIssues |-> <<>>, pending |-> [ok |-> TRUE, issues |-> <<>>],
     thrown |-> Undefined, status |-> "none", message |-> <<>>]

\* a browser or a context that was not created, a page that was not opened
NotCreated == [state |-> "none", closedBy |-> NoObject]
NotOpened == [state |-> "none", context |-> NoObject]

\* new DynamicAnalyzer(): browser = null, context = null; nothing launched
InitDynamicAnalyzer ==
    /\ browser = NoObject
    /\ context = NoObject
    /\ browsers = [c \in Calls |-> NotCreated]
    /\ contexts = [c \in Calls |-> NotCreated]
    /\ pageHandles = [c \in Calls |-> [k \in 0..MaxPages |-> NotOpened]]
    /\ calls = [c \in Calls |-> IdleCall]

\* a context is usable while it and its browser are open
ContextOpen(t) ==
    t # NoObject /\ contexts[t].state = "open" /\ browsers[t].state = "open"

\* context.close() of context t by call c resolved: the context and its
\* pages are closed (closing a closed context changes nothing)
ContextsAfterClose(t, c) ==
    IF contexts[t].state = "open"
    THEN [contexts EXCEPT ![t] = [state |-> "closed", closedBy |-> c]]
    ELSE contexts

PagesAfterClose(t) ==
    [c \in Calls |-> [k \in 0..MaxPages |->
        IF pageHandles[c][k].state = "open" /\ pageHandles[c][k].context = t
        THEN [pageHandles[c][k] EXCEPT !.state = "closed"]
        ELSE pageHandles[c][k]]]

\* browser.close() of browser t by call c resolved
BrowsersAfterClose(t, c) ==
    IF browsers[t].state = "open"
    THEN [browsers EXCEPT ![t] = [state |-> "closed", closedBy |-> c]]
    ELSE browsers

\* cleanup() up to its first await: if (this.context) await
\* this.context.close(), else if (this.browser) await this.browser.close()
EnterCleanup(frame) ==
    IF context # NoObject
    THEN [frame EXCEPT !.pc = "closingContext", !.awaited = context]
    ELSE IF browser # NoObject
    THEN [frame EXCEPT !.pc = "closingBrowser", !.awaited = browser]
    ELSE [frame EXCEPT !.pc = "returning", !.awaited = NoObject]

\* analyze threw: catch (error) { throw error } finally { await this.cleanup() }
Throw(frame, error) == EnterCleanup([frame EXCEPT !.thrown = error])

\* analyzePage(url) up to its first await, for the page at position k:
\* this.context is read now; null makes the call reject, else newPage is
\* called on that context
EnterAnalyzePage(frame, k, thisContext) ==
    [frame EXCEPT !.pc = "openingPage", !.pageIndex = k, !.awaited = thisContext]

\* a faulty variant of AfterPage: the loop over options.pages stops at the
\* first page
AfterPageBreak(frame) ==
    IF frame.pageIndex < 1 /\ frame.pageIndex < frame.pageCount
    THEN EnterAnalyzePage(frame, frame.pageIndex + 1, context)
    ELSE EnterCleanup(frame)

\* the loop over options.pages after the page at frame.pageIndex: the next
\* page, or the summary, the result and the finally block
AfterPage(frame) ==
    IF frame.pageIndex < frame.pageCount
    THEN EnterAnalyzePage(frame, frame.pageIndex + 1, context)
    ELSE EnterCleanup(frame)

\* a faulty variant of PageRejected: the failure of a secondary page is
\* thrown like that of the primary page
PageRejectedAlwaysThrows(frame, error) ==
    Throw([frame EXCEPT !.analysed = Append(@, [ok |-> FALSE, error |-> error])], error)

\* a faulty variant of PageRejected: the failure of the primary page is
\* logged and skipped like that of a secondary page
PageRejectedNeverThrows(frame, error) ==
    AfterPage([frame EXCEPT !.analysed = Append(@, [ok |-> FALSE, error |-> error])])

\* analyzePage rejected with error: the primary page makes analyze throw, a
\* secondary page is logged and skipped
PageRejected(frame, error) ==
    LET noted == [frame EXCEPT !.analysed = Append(@, [ok |-> FALSE, error |-> error])]
    IN  IF frame.pageIndex = 0 THEN Throw(noted, error) ELSE AfterPage(noted)

\* analyzePage resolved with issues: allIssues.push(...pageIssues)
PageResolved(frame, issues) ==
    AfterPage([frame EXCEPT !.analysed = Append(@, [ok |-> TRUE]),
                            !.allIssues = @ \o issues])

\* the url of a call
CallUrl(c) == <<"http://localhost:4200/", c>>

\* the AnalysisResult analyze builds from allIssues
DynamicResult(c, allIssues) ==
    [issues |-> allIssues,
     summary |-> DynamicCalculateSummary(allIssues),
     analysisType |-> "dynamic",
     url |-> CallUrl(c)]

\* no call is between its start and its return
NoCallInFlight == \A c \in Calls : calls[c].pc \in {"idle", "done"}

\* analyzeDynamicAccessibility(options) is called with up to MaxPages
\* secondary pages: analyze runs up to `await chromium.launch(...)`
StartCall(c) ==
    /\ calls[c].pc = "idle"
    /\ \A d \in Calls : d < c => calls[d].pc # "idle"
    /\ \E n \in 0..MaxPages :
         calls' = [calls EXCEPT ![c] = [@ EXCEPT !.pc = "launching", !.pageCount = n]]
    /\ UNCHANGED <<browser, context, browsers, contexts, pageHandles>>
    /\ UNCHANGED <<serverVars, htmlVars, axeVars, rulesVars, fileVars, wcagVars, reportVars>>

\* chromium.launch settles: this.browser is assigned and newContext is
\* called on it, or analyze throws
LaunchSettles(c) ==
    /\ calls[c].pc = "launching"
    /\ \/ /\ browsers' = [browsers EXCEPT ![c] = [state |-> "open", closedBy |-> NoObject]]
          /\ browser' = c
          /\ calls' = [calls EXCEPT ![c] = [@ EXCEPT !.pc = "creatingContext"]]
       \/ /\ calls' = [calls EXCEPT ![c] = Throw(@, ErrLaunch)]
          /\ UNCHANGED <<browser, browsers>>
    /\ UNCHANGED <<context, contexts, pageHandles>>
    /\ UNCHANGED <<serverVars, htmlVars, axeVars, rulesVars, fileVars, wcagVars, reportVars>>

\* browser.newContext settles: this.context is assigned and
\* analyzePage(options.url) runs up to newPage, or analyze throws
ContextSettles(c) ==
    /\ calls[c].pc = "creatingContext"
    /\ \/ /\ browsers[c].state = "open"
          /\ contexts' = [contexts EXCEPT ![c] = [state |-> "open", closedBy |-> NoObject]]
          /\ context' = c
          /\ calls' = [calls EXCEPT ![c] = EnterAnalyzePage(@, 0, c)]
       \/ /\ calls' = [calls EXCEPT ![c] = Throw(@, ErrNewContext)]
          /\ UNCHANGED <<context, contexts>>
    /\ UNCHANGED <<browser, browsers, pageHandles>>
    /\ UNCHANGED <<serverVars, htmlVars, axeVars, rulesVars, fileVars, wcagVars, reportVars>>

\* the start of analyzePage settles: without a context it rejects; else
\* context.newPage opens the page in the context that was read, or rejects
PageOpens(c) ==
    /\ calls[c].pc = "openingPage"
    /\ LET t == calls[c].awaited
           k == calls[c].pageIndex
       IN  \/ /\ t = NoObject
              /\ calls' = [calls EXCEPT ![c] = PageRejected(@, ErrNotInitialized)]
              /\ UNCHANGED pageHandles
           \/ /\ ContextOpen(t)
              /\ pageHandles' = [pageHandles EXCEPT ![c][k] = [state |-> "open", context |-> t]]
              /\ calls' = [calls EXCEPT ![c] = [@ EXCEPT !.pc = "auditing"]]
           \/ /\ t # NoObject
              /\ calls' = [calls EXCEPT ![c] = PageRejected(@, ErrNewPage)]
              /\ UNCHANGED pageHandles
    /\ UNCHANGED <<browser, context, browsers, contexts>>
    /\ UNCHANGED <<serverVars, htmlVars, axeVars, rulesVars, fileVars, wcagVars, reportVars>>

\* the try block of analyzePage settles (goto, the waits, the injection of
\* the auditor, the audit and convertAxeResults): it has the issues of the
\* page or an error, and the finally block calls page.close()
AuditSettles(c) ==
    /\ calls[c].pc = "auditing"
    /\ LET k == calls[c].pageIndex
       IN  \/ /\ pageHandles[c][k].state = "open"
              /\ calls' = [calls EXCEPT ![c] =
                             [@ EXCEPT !.pc = "closingPage",
                                       !.pending = [ok |-> TRUE, issues |-> PageIssues(k)]]]
           \/ calls' = [calls EXCEPT ![c] =
                           [@ EXCEPT !.pc = "closingPage",
                                     !.pending = [ok |-> FALSE, error |-> ErrAudit]]]
    /\ UNCHANGED <<browser, context, browsers, contexts, pageHandles>>
    /\ UNCHANGED <<serverVars, htmlVars, axeVars, rulesVars, fileVars, wcagVars, reportVars>>

\* page.close() of the finally block settles: analyzePage ends the way its
\* try block ended, or, when close rejects, with the error of close
PageCloses(c) ==
    /\ calls[c].pc = "closingPage"
    /\ LET k == calls[c].pageIndex
           pending == calls[c].pending
       IN  \/ /\ pageHandles' = [pageHandles EXCEPT ![c][k].state = "closed"]
              /\ calls' = [calls EXCEPT ![c] =
                             IF pending.ok THEN PageResolved(@, pending.issues)
                             ELSE PageRejected(@, pending.error)]
           \/ /\ calls' = [calls EXCEPT ![c] = PageRejected(@, ErrPageClose)]
              /\ UNCHANGED pageHandles
    /\ UNCHANGED <<browser, context, browsers, contexts>>
    /\ UNCHANGED <<serverVars, htmlVars, axeVars, rulesVars, fileVars, wcagVars, reportVars>>

\* this.context.close() of cleanup settles: this.context = null and, if
\* (this.browser), this.browser.close() is called; a rejection ends cleanup
\* in its catch
ContextCloses(c) ==
    /\ calls[c].pc = "closingContext"
    /\ LET t == calls[c].awaited
       IN  \/ /\ contexts' = ContextsAfterClose(t, c)
              /\ pageHandles' = PagesAfterClose(t)
              /\ context' = NoObject
              /\ calls' = [calls EXCEPT ![c] =
                             IF browser # NoObject
                             THEN [@ EXCEPT !.pc = "closingBrowser", !.awaited = browser]
                             ELSE [@ EXCEPT !.pc = "returning", !.awaited = NoObject]]
           \/ /\ calls' = [calls EXCEPT ![c] =
                             [@ EXCEPT !.pc = "returning", !.awaited = NoObject]]
              /\ UNCHANGED <<context, contexts, pageHandles>>
    /\ UNCHANGED <<browser, browsers>>
    /\ UNCHANGED <<serverVars, htmlVars, axeVars, rulesVars, fileVars, wcagVars, reportVars>>

\* this.browser.close() of cleanup settles: this.browser = null; a
\* rejection ends cleanup in its catch
BrowserCloses(c) ==
    /\ calls[c].pc = "closingBrowser"
    /\ LET t == calls[c].awaited
       IN  \/ /\ browsers' = BrowsersAfterClose(t, c)
              /\ contexts' = ContextsAfterClose(t, c)
              /\ pageHandles' = PagesAfterClose(t)
              /\ browser' = NoObject
           \/ UNCHANGED <<browser, browsers, contexts, pageHandles>>
    /\ calls' = [calls EXCEPT ![c] = [@ EXCEPT !.pc = "returning", !.awaited = NoObject]]
    /\ UNCHANGED context
    /\ UNCHANGED <<serverVars, htmlVars, axeVars, rulesVars, fileVars, wcagVars, reportVars>>

\* a faulty variant of AnalyzeSettles: the push stands in a finally block,
\* so that a failed analysis leaves what it had found in analysisResults
AnalyzeSettlesAlwaysPushes(c) ==
    /\ calls[c].pc = "returning"
    /\ IF calls[c].thrown = Undefined
       THEN /\ analysisResults' = Append(analysisResults, DynamicResult(c, calls[c].allIssues))
            /\ lastCall' = Returned("analyze_dynamic_accessibility")
            /\ calls' = [calls EXCEPT ![c] = [@ EXCEPT !.pc = "done", !.status = "ok"]]
       ELSE /\ analysisResults' = Append(analysisResults, DynamicResult(c, calls[c].allIssues))
            /\ lastCall' = Threw("analyze_dynamic_accessibility",
                                 DynamicFailure(calls[c].thrown))
            /\ calls' = [calls EXCEPT ![c] =
                           [@ EXCEPT !.pc = "done", !.status = "error",
                                     !.message = DynamicFailure(calls[c].thrown)]]
    /\ UNCHANGED <<browser, context, browsers, contexts, pageHandles>>
    /\ UNCHANGED <<reportInput, combinedResult, htmlVars, axeVars, rulesVars,
                   fileVars, wcagVars, reportVars>>

\* analyze settles in analyzeDynamicAccessibility: the result is pushed to
\* analysisResults, or the error is wrapped and thrown
AnalyzeSettles(c) ==
    /\ calls[c].pc = "returning"
    /\ IF calls[c].thrown = Undefined
       THEN /\ analysisResults' = Append(analysisResults, DynamicResult(c, calls[c].allIssues))
            /\ lastCall' = Returned("analyze_dynamic_accessibility")
            /\ calls' = [calls EXCEPT ![c] = [@ EXCEPT !.pc = "done", !.status = "ok"]]
       ELSE /\ analysisResults' = analysisResults
            /\ lastCall' = Threw("analyze_dynamic_accessibility",
                                 DynamicFailure(calls[c].thrown))
            /\ calls' = [calls EXCEPT ![c] =
                           [@ EXCEPT !.pc = "done", !.status = "error",
                                     !.message = DynamicFailure(calls[c].thrown)]]
    /\ UNCHANGED <<browser, context, browsers, contexts, pageHandles>>
    /\ UNCHANGED <<reportInput, combinedResult, htmlVars, axeVars, rulesVars,
                   fileVars, wcagVars, reportVars>>

\* the server is not asked for a dynamic analysis
DynIdle == InitDynamicAnalyzer

-----------------------------------------------------------------------------
(* The two checks of a single function: SpecHtml applies                   *)
(* analyzeHtmlTemplate to a document, SpecAxe applies convertAxeResults to *)
(* a raw audit output.                                                     *)

\* the server takes no part in them
ServerIdle == InitServer

HtmlIdle == content = <<>> /\ htmlIssues = <<>> /\ htmlPc = "idle"

AxeIdle ==
    /\ axeResults = [url |-> "http://localhost:4200/"]
    /\ axeIssues = <<>>
    /\ axePc = "idle"

\* no call on the rule catalog was made
RulesIdle ==
    /\ ruleElement = DomElement("P", Undefined, {}, "", "", Undefined, Undefined, -1)
    /\ ruleCall = [fn |-> "none"]

\* no stylesheet and no component source is analysed on its own
FileIdle == srcFile = [kind |-> "none"] /\ srcIssues = <<>> /\ srcPc = "idle"

\* the guideline service is not used: no time passes, nothing is cached
WcagIdle ==
    /\ clock = 0
    /\ cacheFile = [exists |-> FALSE]
    /\ guidelines = [source |-> "none", loadedAt |-> 0]
    /\ cacheLoaded = FALSE
    /\ wcagCall = [status |-> "none"]

\* no report call is in flight
ReportIdle == report = [pc |-> "idle"]

\* the other components take no part
OthersIdle == FileIdle /\ WcagIdle /\ ReportIdle

InitHtml ==
    /\ content \in Documents
    /\ htmlIssues = <<>>
    /\ htmlPc = "ready"
    /\ ServerIdle
    /\ AxeIdle
    /\ RulesIdle
    /\ DynIdle
    /\ OthersIdle

RunAnalyzeHtmlTemplate ==
    /\ htmlPc = "ready"
    /\ htmlIssues' = AnalyzeHtmlTemplate(content, HtmlFile)
    /\ htmlPc' = "done"
    /\ UNCHANGED <<content, serverVars, axeVars, rulesVars, dynVars,
                   fileVars, wcagVars, reportVars>>

NextHtml == RunAnalyzeHtmlTemplate

SpecHtml == InitHtml /\ [][NextHtml]_vars

InitAxe ==
    /\ axeResults \in AxeOutputs
    /\ axeIssues = <<>>
    /\ axePc = "ready"
    /\ ServerIdle
    /\ HtmlIdle
    /\ RulesIdle
    /\ DynIdle
    /\ OthersIdle

RunConvertAxeResults ==
    /\ axePc = "ready"
    /\ axeIssues' = ConvertAxeResults(axeResults)
    /\ axePc' = "done"
    /\ UNCHANGED <<axeResults, serverVars, htmlVars, rulesVars, dynVars,
                   fileVars, wcagVars, reportVars>>

NextAxe == RunConvertAxeResults

SpecAxe == InitAxe /\ [][NextAxe]_vars

-----------------------------------------------------------------------------
(* The rule catalog in use: lookups in the registry and the filters, and   *)
(* the predicate of a rule applied to an element.                          *)

InitRules ==
    /\ ruleElement \in RuleElements
    /\ ruleCall = [fn |-> "none"]
    /\ ServerIdle
    /\ HtmlIdle
    /\ AxeIdle
    /\ DynIdle
    /\ OthersIdle

\* getRuleById(id)
CallGetRuleById ==
    /\ \E id \in LookupIds :
         ruleCall' = [fn |-> "getRuleById", arg |-> id, rule |-> GetRuleById(id)]
    /\ UNCHANGED <<ruleElement, serverVars, htmlVars, axeVars, dynVars,
                   fileVars, wcagVars, reportVars>>

\* getRulesByCategory(category)
CallGetRulesByCategory ==
    /\ \E category \in LookupCategories :
         ruleCall' = [fn |-> "getRulesByCategory", arg |-> category,
                      rules |-> GetRulesByCategory(category)]
    /\ UNCHANGED <<ruleElement, serverVars, htmlVars, axeVars, dynVars,
                   fileVars, wcagVars, reportVars>>

\* getRulesByWcagLevel(level)
CallGetRulesByWcagLevel ==
    /\ \E level \in LookupLevels :
         ruleCall' = [fn |-> "getRulesByWcagLevel", arg |-> level,
                      rules |-> GetRulesByWcagLevel(level)]
    /\ UNCHANGED <<ruleElement, serverVars, htmlVars, axeVars, dynVars,
                   fileVars, wcagVars, reportVars>>

\* getRulesBySeverity(severity)
CallGetRulesBySeverity ==
    /\ \E severity \in Severities :
         ruleCall' = [fn |-> "getRulesBySeverity", arg |-> severity,
                      rules |-> GetRulesBySeverity(severity)]
    /\ UNCHANGED <<ruleElement, serverVars, htmlVars, axeVars, dynVars,
                   fileVars, wcagVars, reportVars>>

\* rule.check(element) for a rule of the catalog
CallRuleCheck ==
    /\ \E i \in 1..Len(AllRules) :
         ruleCall' = [fn |-> "check", arg |-> AllRules[i].id, rule |-> i,
                      compliant |-> RuleCheck(AllRules[i].id, ruleElement)]
    /\ UNCHANGED <<ruleElement, serverVars, htmlVars, axeVars, dynVars,
                   fileVars, wcagVars, reportVars>>

NextRules ==
    \/ CallGetRuleById
    \/ CallGetRulesByCategory
    \/ CallGetRulesByWcagLevel
    \/ CallGetRulesBySeverity
    \/ CallRuleCheck

SpecRules == InitRules /\ [][NextRules]_vars

-----------------------------------------------------------------------------
(* analyzeCssFile and analyzeTypeScriptFile applied to one file (SpecFile). *)

\* what the stylesheets of SpecFile are made of: selectors and declarations
CssTokens ==
    {"button", ".focus", ":focus", ":focus-visible", ":focus-within",
     "outline: none", "outline:none", "outline: 0"}

Stylesheets == SeqsUpTo(CssTokens, MaxTokens)

\* the *ngFor occurrences /\*ngFor="[^"]*"/g finds
NgForMatches ==
    {"*ngFor=\"let item of items; trackBy: trackById\"", "*ngFor=\"let item of items\""}

\* the inline templates of the component sources of SpecFile
Templates ==
    {<<>>,
     <<Img(Undefined, "a.png")>>,
     <<Heading("h2"), Img(Undefined, Undefined), Img("logo", "a.png")>>,
     <<Control("input", "text", "a\"b", Undefined, Undefined)>>}

ComponentSource(markers, hasTemplate, template, ngFors) ==
    [markers |-> markers, hasTemplate |-> hasTemplate, template |-> template,
     ngFors |-> ngFors]

ComponentSources ==
    {ComponentSource(markers, FALSE, <<>>, ngFors) :
        markers \in SUBSET {"@Component", "templateUrl", "styleUrls"},
        ngFors \in SeqsUpTo(NgForMatches, MaxNgFors)}
    \cup
    {ComponentSource(markers, TRUE, template, ngFors) :
        markers \in SUBSET {"@Component", "templateUrl", "styleUrls"},
        template \in Templates,
        ngFors \in SeqsUpTo(NgForMatches, MaxNgFors)}

\* the file names the sources of SpecFile are analysed under
CssFile == <<"src/styles", ".css">>
ComponentFile == <<"src/app.component", ".ts">>

\* analyzeTypeScriptFile(content, filePath) throws: the file is a component
\* and the analysis of its inline template throws
TypeScriptFileThrows(ts) ==
    IsAngularComponent(ts) /\ ts.hasTemplate /\ HtmlTemplateThrows(ts.template)

InitFile ==
    /\ srcFile \in {[kind |-> "css", css |-> css] : css \in Stylesheets}
                   \cup {[kind |-> "ts", ts |-> ts] : ts \in ComponentSources}
    /\ srcIssues = <<>>
    /\ srcPc = "ready"
    /\ ServerIdle
    /\ HtmlIdle
    /\ AxeIdle
    /\ RulesIdle
    /\ DynIdle
    /\ WcagIdle
    /\ ReportIdle

RunAnalyzeCssFile ==
    /\ srcPc = "ready"
    /\ srcFile.kind = "css"
    /\ srcIssues' = AnalyzeCssFile(srcFile.css, CssFile)
    /\ srcPc' = "done"
    /\ UNCHANGED <<srcFile, serverVars, htmlVars, axeVars, rulesVars, dynVars,
                   wcagVars, reportVars>>

RunAnalyzeTypeScriptFile ==
    /\ srcPc = "ready"
    /\ srcFile.kind = "ts"
    /\ IF TypeScriptFileThrows(srcFile.ts)
       THEN srcIssues' = <<>> /\ srcPc' = "threw"
       ELSE /\ srcIssues' = AnalyzeTypeScriptFile(srcFile.ts, ComponentFile)
            /\ srcPc' = "done"
    /\ UNCHANGED <<srcFile, serverVars, htmlVars, axeVars, rulesVars, dynVars,
                   wcagVars, reportVars>>

NextFile == RunAnalyzeCssFile \/ RunAnalyzeTypeScriptFile

SpecFile == InitFile /\ [][NextFile]_vars

-----------------------------------------------------------------------------
(* WcagService: the guidelines, the cache file and the flag that says they *)
(* were loaded (SpecWcag). Time is counted in hours. The guidelines are    *)
(* known by where they come from and when they were fetched; the filters   *)
(* of getGuidelines (criterion, level) select among them and change        *)
(* nothing.                                                                *)

\* cacheMaxAge = 24 * 60 * 60 * 1000 milliseconds, in hours
CacheMaxAge == 24

\* the guidelines fetchGuidelinesFromWeb returned at the given time: those
\* of the page ("web") or, when the request or the parsing failed, the
\* built-in defaults ("default")
Guidelines(source, loadedAt) == [source |-> source, loadedAt |-> loadedAt]

\* private guidelines: WcagGuideline[] = []
NoGuidelines == Guidelines("none", 0)

\* a cache file saveToCache wrote at the given time
CacheWritten(saved, timestamp) ==
    [exists |-> TRUE, valid |-> TRUE, timestamp |-> timestamp, guidelines |-> saved]

\* the hour the process starts at; cache files of earlier processes are older
ProcessStart == CacheMaxAge + CacheMaxAge

\* the cache files a process may find when it starts: none, one that cannot
\* be parsed, and files written 30, 24, 20 and 2 hours before
CacheFilesAtStart ==
    {[exists |-> FALSE], [exists |-> TRUE, valid |-> FALSE]}
    \cup
    {CacheWritten(Guidelines("web", ProcessStart - age), ProcessStart - age) :
        age \in {30, 24, 20, 2}}

\* the cached guideline record is missing or older than cacheMaxAge at the
\* time of a call: the record is that of the service once it has loaded
\* one, and that of the cache file before
CacheMissOrExpired ==
    IF cacheLoaded THEN clock - guidelines.loadedAt > CacheMaxAge
    ELSE \/ ~cacheFile.exists
         \/ ~cacheFile.valid
         \/ clock - cacheFile.timestamp > CacheMaxAge

\* loadFromCache(): false when the file is missing, cannot be read or is
\* older than cacheMaxAge; else this.guidelines = cacheData.guidelines
LoadFromCache(file, now) ==
    IF ~file.exists THEN [hit |-> FALSE]
    ELSE IF ~file.valid THEN [hit |-> FALSE]
    ELSE IF now - file.timestamp > CacheMaxAge THEN [hit |-> FALSE]
    ELSE [hit |-> TRUE, guidelines |-> file.guidelines]

\* saveToCache(): the file is written, or writeJson throws and the catch
\* leaves the file as it was
SaveToCache(file, saved, now, written) ==
    IF written THEN CacheWritten(saved, now) ELSE file

\* new WcagService() in a process that starts with some cache file
InitWcagService ==
    /\ clock = ProcessStart
    /\ cacheFile \in CacheFilesAtStart
    /\ guidelines = NoGuidelines
    /\ cacheLoaded = FALSE
    /\ wcagCall = [status |-> "none"]

InitWcag ==
    /\ InitWcagService
    /\ ServerIdle
    /\ HtmlIdle
    /\ AxeIdle
    /\ RulesIdle
    /\ DynIdle
    /\ FileIdle
    /\ ReportIdle

\* an hour passes
Tick ==
    /\ clock < ProcessStart + MaxHours
    /\ clock' = clock + 1
    /\ UNCHANGED <<cacheFile, guidelines, cacheLoaded, wcagCall>>
    /\ UNCHANGED <<serverVars, htmlVars, axeVars, rulesVars, dynVars, fileVars, reportVars>>

\* getGuidelines(options): loadGuidelines() and the guidelines it leaves in
\* this.guidelines
GetGuidelines ==
    /\ IF cacheLoaded
       THEN /\ UNCHANGED <<cacheFile, guidelines, cacheLoaded>>
            /\ wcagCall' = [status |-> "ok", at |-> clock, guidelines |-> guidelines,
                            stale |-> CacheMissOrExpired,
                            fetched |-> FALSE]
       ELSE LET cached == LoadFromCache(cacheFile, clock)
            IN  IF cached.hit
                THEN /\ guidelines' = cached.guidelines
                     /\ cacheLoaded' = TRUE
                     /\ UNCHANGED cacheFile
                     /\ wcagCall' = [status |-> "ok", at |-> clock,
                                     guidelines |-> cached.guidelines,
                                     stale |-> CacheMissOrExpired,
                                     fetched |-> FALSE]
                ELSE \E source \in {"web", "default"}, written \in BOOLEAN :
                         LET fetched == Guidelines(source, clock)
                         IN  /\ guidelines' = fetched
                             /\ cacheFile' = SaveToCache(cacheFile, fetched, clock, written)
                             /\ cacheLoaded' = TRUE
                             /\ wcagCall' = [status |-> "ok", at |-> clock,
                                             guidelines |-> fetched,
                                             stale |-> CacheMissOrExpired,
                                             fetched |-> TRUE]
    /\ UNCHANGED clock
    /\ UNCHANGED <<serverVars, htmlVars, axeVars, rulesVars, dynVars, fileVars, reportVars>>

NextWcag == Tick \/ GetGuidelines

SpecWcag == InitWcag /\ [][NextWcag]_vars

-----------------------------------------------------------------------------
(* The dynamic analyses step by step: one at a time (SpecDyn), and made at *)
(* any time, so that their steps interleave (SpecDynInterleaved).          *)

InitDyn == InitDynamicAnalyzer /\ InitServer /\ HtmlIdle /\ AxeIdle /\ RulesIdle /\ OthersIdle

\* the steps of the calls that were started
CallStep(c) ==
    \/ LaunchSettles(c)
    \/ ContextSettles(c)
    \/ PageOpens(c)
    \/ AuditSettles(c)
    \/ PageCloses(c)
    \/ ContextCloses(c)
    \/ BrowserCloses(c)
    \/ AnalyzeSettles(c)

\* a call made when no other is in flight
StartCallAlone(c) == NoCallInFlight /\ StartCall(c)

\* one call at a time
NextDyn ==
    \/ \E c \in Calls : StartCallAlone(c)
    \/ \E c \in Calls : CallStep(c)

SpecDyn == InitDyn /\ [][NextDyn]_vars

\* calls made at any time: the steps of several calls interleave
NextDynInterleaved ==
    \/ \E c \in Calls : StartCall(c)
    \/ \E c \in Calls : CallStep(c)

SpecDynInterleaved == InitDyn /\ [][NextDynInterleaved]_vars

-----------------------------------------------------------------------------
(* The server with its calls in flight (SpecServer): static analyses,      *)
(* dynamic analyses step by step, and reports in two steps, the code up    *)
(* to `await this.reportGenerator.generate(...)` and the code after it.    *)

\* a faulty variant of ReportMerges: the report also merges what the dynamic
\* analyses in flight have found so far
ReportMergesCallsInFlight ==
    /\ report.pc = "idle"
    /\ reportInput' = analysisResults
    /\ IF NoResultsAvailable(analysisResults)
       THEN /\ combinedResult' = [built |-> FALSE]
            /\ lastCall' = Threw("generate_accessibility_report",
                                 ReportFailure(NoResultsMessage))
            /\ UNCHANGED <<analysisResults, report>>
       ELSE /\ combinedResult' = [built |-> TRUE,
                                    result |-> Aggregate(analysisResults \o
                                        [c \in Calls |-> DynamicResult(c,
                                            IF calls[c].pc \in {"idle", "done"}
                                            THEN <<>> ELSE calls[c].allIssues)])]
            /\ analysisResults' = ResultsAfterAggregate(analysisResults)
            /\ report' = [pc |-> "rendering"]
            /\ UNCHANGED lastCall
    /\ UNCHANGED <<htmlVars, axeVars, rulesVars, dynVars, fileVars, wcagVars>>

\* generateAccessibilityReport(options) up to its await: the guard throws,
\* or the results are merged, sorted and counted and the renderer is called
ReportMerges ==
    /\ report.pc = "idle"
    /\ reportInput' = analysisResults
    /\ IF NoResultsAvailable(analysisResults)
       THEN /\ combinedResult' = [built |-> FALSE]
            /\ lastCall' = Threw("generate_accessibility_report",
                                 ReportFailure(NoResultsMessage))
            /\ UNCHANGED <<analysisResults, report>>
       ELSE /\ combinedResult' = [built |-> TRUE, result |-> Aggregate(analysisResults)]
            /\ analysisResults' = ResultsAfterAggregate(analysisResults)
            /\ report' = [pc |-> "rendering"]
            /\ UNCHANGED lastCall
    /\ UNCHANGED <<htmlVars, axeVars, rulesVars, dynVars, fileVars, wcagVars>>

\* reportGenerator.generate settles: the call returns the path of the
\* report, or wraps the error and throws
ReportSettles ==
    /\ report.pc = "rendering"
    /\ report' = [pc |-> "idle"]
    /\ \E rendering \in RendererOutcomes :
         lastCall' =
             IF rendering.ok
             THEN [Returned("generate_accessibility_report") EXCEPT !.rendered = TRUE]
             ELSE [Threw("generate_accessibility_report",
                         ReportFailure(rendering.error)) EXCEPT !.rendered = TRUE]
    /\ UNCHANGED <<analysisResults, reportInput, combinedResult>>
    /\ UNCHANGED <<htmlVars, axeVars, rulesVars, dynVars, fileVars, wcagVars>>

\* the projects the server is asked to analyse while other calls are in
\* flight: one whose analysis succeeds and one whose analysis fails
ServerProjects == {project \in Projects : project.projectPath \in {"/docs", "/denied"}}

\* analyzeStaticAccessibility(options), between the steps of other calls
AnalyzeStaticInFlight ==
    /\ Len(analysisResults) < MaxResults + MaxServerCalls
    /\ \E project \in ServerProjects : StaticCallSettles(project)

\* the dynamic analyses the server is asked for in SpecServer
ServerCalls == 1..MaxServerCalls

NextServer ==
    \/ \E c \in ServerCalls : StartCallAlone(c)
    \/ \E c \in Calls : CallStep(c)
    \/ AnalyzeStaticInFlight
    \/ ReportMerges
    \/ ReportSettles

SpecServer == InitDyn /\ [][NextServer]_vars

-----------------------------------------------------------------------------
(* The server: tool calls in any order.                                    *)

Init == InitServer /\ HtmlIdle /\ AxeIdle /\ RulesIdle /\ DynIdle /\ OthersIdle

Next ==
    \/ AnalyzeStaticAccessibility
    \/ AnalyzeDynamicAccessibility
    \/ GenerateAccessibilityReport

Spec == Init /\ [][Next]_vars

-----------------------------------------------------------------------------
(* Properties of analyzeHtmlTemplate, checked under SpecHtml.              *)

\* the issues of one check, recognised by the first part of their id
IssuesOfCheck(issues, name) == SelectSeq(issues, LAMBDA x : x.id[1] = name)

\* how many of the issues carry the given id
CountId(issues, id) == Cardinality({k \in 1..Len(issues) : issues[k].id = id})

\* the levels of the headings of a document, in document order
HeadingLevelsOf(doc) ==
    LET hs == SelectHeadings(doc)
    IN  [i \in 1..Len(hs) |-> HeadingLevel(hs[i].tag)]

\* C7: taking the headings of a document in order, the i-th heading has a
\* heading-hierarchy issue iff its level exceeds previousLevel + 1, where
\* previousLevel is the level of the heading before it whether or not that
\* one was flagged (0 before the first heading, the value the code starts
\* from); the number of issues is the number of such skips: h1,h2,h4 gives
\* one, h1,h3,h5 gives two, h2,h4,h6 gives three.
C7_HeadingSkips ==
    htmlPc = "done" =>
        LET levels == HeadingLevelsOf(content)
            prev(i) == IF i = 1 THEN 0 ELSE levels[i - 1]
            skips == {i \in 1..Len(levels) : levels[i] > prev(i) + 1}
            found == IssuesOfCheck(htmlIssues, "heading-hierarchy")
        IN  /\ Len(found) = Cardinality(skips)
            /\ \A i \in 1..Len(levels) :
                   CountId(found, <<"heading-hierarchy", i - 1>>)
                       = IF i \in skips THEN 1 ELSE 0
            /\ levels = <<1, 2, 4>> => Len(found) = 1
            /\ levels = <<1, 3, 5>> => Len(found) = 2
            /\ levels = <<2, 4, 6>> => Len(found) = 3

\* C7 witness: h1,h3,h4 was analysed; h3 is flagged, and h4, compared with
\* the flagged h3, is not
C7_Witness ==
    /\ htmlPc = "done"
    /\ HeadingLevelsOf(content) = <<1, 3, 4>>
    /\ Len(IssuesOfCheck(htmlIssues, "heading-hierarchy")) = 1
    /\ CountId(htmlIssues, <<"heading-hierarchy", 1>>) = 1

\* C8: the i-th img of a document has exactly one img-alt issue when it has
\* no alt attribute and none when the attribute is present, an empty value
\* included; every img-alt issue is serious, criterion 1.1.1, level A, and
\* belongs to an img of the document.
C8_ImgAlt ==
    htmlPc = "done" =>
        LET imgs == SelectImgs(content)
            found == IssuesOfCheck(htmlIssues, "img-alt")
        IN  /\ \A i \in 1..Len(imgs) :
                   CountId(htmlIssues, <<"img-alt", i - 1>>)
                       = IF imgs[i].alt = Undefined THEN 1 ELSE 0
            /\ \A k \in 1..Len(found) :
                   /\ found[k].severity = "serious"
                   /\ found[k].wcagCriterion = <<"1", ".", "1", ".", "1">>
                   /\ found[k].wcagLevel = "A"
                   /\ \E i \in 1..Len(imgs) : found[k].id = <<"img-alt", i - 1>>

\* C8 witness: a document with an img with alt="" and an img without alt was
\* analysed and has one img-alt issue, for the second
C8_Witness ==
    /\ htmlPc = "done"
    /\ Len(SelectImgs(content)) = 2
    /\ SelectImgs(content)[1].alt = ""
    /\ SelectImgs(content)[2].alt = Undefined
    /\ Len(IssuesOfCheck(htmlIssues, "img-alt")) = 1
    /\ CountId(htmlIssues, <<"img-alt", 1>>) = 1

\* a label element whose for equals the control's id
HasMatchingLabel(doc, el) ==
    /\ el.id # Undefined
    /\ \E i \in 1..Len(doc) : doc[i].tag = "label" /\ doc[i].for = el.id

\* C9: the i-th text-like control of a document has exactly one input-label
\* issue, serious and of criterion 1.3.1, iff it has none of a label whose
\* for equals its id, an aria-label attribute, an aria-labelledby attribute;
\* with any of the three it has no issue.
C9_ControlNamed ==
    htmlPc = "done" =>
        LET controls == SelectControls(content)
            found == IssuesOfCheck(htmlIssues, "input-label")
            Unnamed(el) == /\ ~HasMatchingLabel(content, el)
                           /\ el.ariaLabel = Undefined
                           /\ el.ariaLabelledby = Undefined
        IN  /\ \A i \in 1..Len(controls) :
                   CountId(htmlIssues, <<"input-label", i - 1>>)
                       = IF Unnamed(controls[i]) THEN 1 ELSE 0
            /\ \A k \in 1..Len(found) :
                   /\ found[k].severity = "serious"
                   /\ found[k].wcagCriterion = <<"1", ".", "3", ".", "1">>

\* C19: the first heading of a document has no heading-hierarchy issue
\* whatever its level, and each later heading has one iff its level exceeds
\* the level of the heading before it by more than one.
C19_FirstHeadingBaseline ==
    htmlPc = "done" =>
        LET levels == HeadingLevelsOf(content)
        IN  \A i \in 1..Len(levels) :
                CountId(htmlIssues, <<"heading-hierarchy", i - 1>>)
                    = IF i > 1 /\ levels[i] > levels[i - 1] + 1 THEN 1 ELSE 0

-----------------------------------------------------------------------------
(* Properties of convertAxeResults, checked under SpecAxe.                 *)

RECURSIVE NodeCount(_)
\* the sum of the node counts of a list of violations
NodeCount(violations) ==
    IF violations = <<>> THEN 0
    ELSE Len(Head(violations).nodes) + NodeCount(Tail(violations))

\* C10: the issues of a page are, violation after violation and node after
\* node, one issue per affected node: N issues for a violation with N nodes
\* (none for N = 0), each with the violation's rule id, description, help
\* text and help URL and the node's own element and selector; their number
\* is the sum of the node counts.
C10_NodeExpansion ==
    (axePc = "done" /\ "violations" \in DOMAIN axeResults) =>
        LET vs == axeResults.violations
            Before(i) == NodeCount(SubSeq(vs, 1, i - 1))
        IN  /\ Len(axeIssues) = NodeCount(vs)
            /\ \A i \in 1..Len(vs) : \A k \in 1..Len(vs[i].nodes) :
                   LET x == axeIssues[Before(i) + k]
                       node == vs[i].nodes[k]
                   IN  /\ x.rule = vs[i].id
                       /\ x.description = vs[i].description
                       /\ x.helpText = vs[i].help
                       /\ x.wcagUrl = vs[i].helpUrl
                       /\ x.element = node.html
                       /\ SelectSeq(x.selector, LAMBDA part : part # ", ") = node.target

\* C10 witness: an output whose first violation has no node and whose second
\* has two was normalised into two issues
C10_Witness ==
    /\ axePc = "done"
    /\ "violations" \in DOMAIN axeResults
    /\ Len(axeResults.violations) = 2
    /\ Len(axeResults.violations[1].nodes) = 0
    /\ Len(axeResults.violations[2].nodes) = 2
    /\ Len(axeIssues) = 2
    /\ axeIssues[2].selector = <<"iframe", ", ", "n2">>

\* the violation and the node an issue of a page was made from: the issues
\* follow the violations, and within a violation its nodes
IssueOrigins(violations) ==
    Concat([i \in 1..Len(violations) |->
               [k \in 1..Len(violations[i].nodes) |-> [violation |-> i, node |-> k]]])

\* C11: every issue of a normalised page has one of the four severities:
\* the impact of its violation when that is critical, serious, moderate or
\* minor, and minor for any other impact ("blocker", a missing impact); the
\* normaliser yields an issue list for every raw output.
C11_SeverityTotal ==
    (axePc = "done" /\ "violations" \in DOMAIN axeResults) =>
        LET vs == axeResults.violations
            origins == IssueOrigins(vs)
        IN  /\ Len(axeIssues) = Len(origins)
            /\ \A n \in 1..Len(axeIssues) :
                   LET impact == vs[origins[n].violation].impact
                   IN  /\ axeIssues[n].severity \in Severities
                       /\ axeIssues[n].severity
                              = IF impact \in Severities THEN impact ELSE "minor"

\* C11 witness: an output with a violation of impact "blocker" and one
\* without impact, each with a node, was normalised into minor issues
C11_Witness ==
    /\ axePc = "done"
    /\ "violations" \in DOMAIN axeResults
    /\ Len(axeResults.violations) = 2
    /\ axeResults.violations[1].impact = "blocker"
    /\ axeResults.violations[2].impact = Undefined
    /\ Len(axeIssues) >= 2
    /\ \A n \in 1..Len(axeIssues) : axeIssues[n].severity = "minor"

\* the level-indicating tokens of a WCAG tag: the letters a that follow its
\* prefix wcag (wcag2a has one, wcag2aa two, wcag111 none)
LevelTokens(tag) == Len(SelectSeq(SubSeq(tag, 5, Len(tag)), LAMBDA p : p = "a"))

\* C12: the level of an issue follows the level tokens of the first WCAG
\* tag of its violation: one token (wcag2a) gives A, two (wcag2aa) give AA,
\* three or more give AAA; a violation without a WCAG tag gives level AA
\* and criterion "Unknown".
C12_WcagLevel ==
    (axePc = "done" /\ "violations" \in DOMAIN axeResults) =>
        LET vs == axeResults.violations
            origins == IssueOrigins(vs)
        IN  \A n \in 1..Len(axeIssues) :
                LET tags == vs[origins[n].violation].tags
                    wcag == SelectSeq(tags, StartsWithWcag)
                    x == axeIssues[n]
                IN  IF wcag = <<>>
                    THEN x.wcagLevel = "AA" /\ x.wcagCriterion = TextUnknown
                    ELSE /\ LevelTokens(wcag[1]) = 1 => x.wcagLevel = "A"
                         /\ LevelTokens(wcag[1]) = 2 => x.wcagLevel = "AA"
                         /\ LevelTokens(wcag[1]) >= 3 => x.wcagLevel = "AAA"
                         /\ wcag[1] = TagWcag2a => x.wcagLevel = "A"
                         /\ wcag[1] = TagWcag2aa => x.wcagLevel = "AA"

-----------------------------------------------------------------------------
(* Properties of the results and of the report, checked under Spec.        *)

ReportTool == "generate_accessibility_report"

\* the rank the report orders severities by
Rank(severity) ==
    CASE severity = "critical" -> 0
      [] severity = "serious" -> 1
      [] severity = "moderate" -> 2
      [] severity = "minor" -> 3

RECURSIVE IssuesInOrder(_)
\* the issues of a list of results: result after result, issue after issue
IssuesInOrder(results) ==
    IF results = <<>> THEN <<>>
    ELSE Head(results).issues \o IssuesInOrder(Tail(results))

OfSeverity(issues, s) == SelectSeq(issues, LAMBDA x : x.severity = s)

IsRanked(issues) ==
    \A i \in 1..Len(issues) : \A j \in (i + 1)..Len(issues) :
        Rank(issues[i].severity) <= Rank(issues[j].severity)

AllZero == [total |-> 0, critical |-> 0, serious |-> 0, moderate |-> 0, minor |-> 0]

\* the total of a summary is the number of issues, and its four counts add
\* up to the total
SummaryConsistent(r) ==
    /\ r.summary.total = Len(r.issues)
    /\ r.summary.critical + r.summary.serious + r.summary.moderate + r.summary.minor
           = r.summary.total

\* C1: in every result a static or a dynamic analysis produced and in every
\* combined result of a report, summary.total is the number of issues and
\* the counts of the four severities add up to summary.total.
C1_SummaryConsistent ==
    /\ \A i \in 1..Len(analysisResults) : SummaryConsistent(analysisResults[i])
    /\ combinedResult.built => SummaryConsistent(combinedResult.result)

\* C1 witness: a static and a dynamic result with issues were accumulated
\* and combined, and the combined result counts issues of all severities
C1_Witness ==
    /\ combinedResult.built
    /\ \E i, j \in 1..Len(analysisResults) :
           /\ analysisResults[i].analysisType = "static"
           /\ analysisResults[j].analysisType = "dynamic"
           /\ analysisResults[i].summary.total > 0
           /\ analysisResults[j].summary.minor > 0
    /\ \A s \in Severities : combinedResult.result.summary[s] > 0

\* C2: the issues of a combined result are in ascending severity rank.
C2_SortedBySeverity ==
    combinedResult.built => IsRanked(combinedResult.result.issues)

\* C2 witness: two results whose concatenation was not in rank order were
\* combined
C2_Witness ==
    /\ combinedResult.built
    /\ Len(reportInput) = 2
    /\ ~IsRanked(IssuesInOrder(reportInput))
    /\ Len(combinedResult.result.issues) = Len(IssuesInOrder(reportInput))

\* C3: for each severity, the issues of that severity are in the combined
\* result in the order they have in the concatenation of the accumulated
\* results.
C3_StableSort ==
    combinedResult.built =>
        \A s \in Severities :
            OfSeverity(combinedResult.result.issues, s)
                = OfSeverity(IssuesInOrder(reportInput), s)

\* C3 witness: a dynamic and a static result were combined; the sort moved
\* issues, and two different serious issues, one of each result, kept their
\* order
C3_Witness ==
    /\ combinedResult.built
    /\ Len(reportInput) = 2
    /\ reportInput[1].analysisType = "dynamic"
    /\ reportInput[2].analysisType = "static"
    /\ combinedResult.result.issues # IssuesInOrder(reportInput)
    /\ LET serious == OfSeverity(combinedResult.result.issues, "serious")
       IN  /\ Len(serious) >= 2
           /\ serious[1].source = "dynamic"
           /\ serious[Len(serious)].source = "static"

\* C4: aggregating the combined result alone gives its issue sequence and
\* its summary again.
C4_Idempotent ==
    combinedResult.built =>
        LET again == Aggregate(<<combinedResult.result>>)
        IN  /\ again.issues = combinedResult.result.issues
            /\ again.summary = combinedResult.result.summary

\* C4 witness: a combined result that the sort had to reorder and that holds
\* several issues of one severity
C4_Witness ==
    /\ combinedResult.built
    /\ ~IsRanked(IssuesInOrder(reportInput))
    /\ \E s \in Severities : combinedResult.result.summary[s] >= 3

\* C5 as stated: a report over zero accumulated results gives a combined
\* result with no issue and an all-zero summary, and no exception.
C5_EmptyAggregate ==
    (lastCall.tool = ReportTool /\ reportInput = <<>>) =>
        /\ combinedResult.built
        /\ combinedResult.result.issues = <<>>
        /\ combinedResult.result.summary = AllZero
        /\ lastCall.status = "ok"

\* C5 amended: a report over accumulated results that hold no issue gives a
\* combined result with no issue and an all-zero summary; over zero
\* accumulated results it builds no combined result and throws the error
\* that says no results are available.
C5_EmptyAggregateAmended ==
    lastCall.tool = ReportTool =>
        /\ (reportInput # <<>> /\ IssuesInOrder(reportInput) = <<>>) =>
               /\ combinedResult.built
               /\ combinedResult.result.issues = <<>>
               /\ combinedResult.result.summary = AllZero
        /\ reportInput = <<>> =>
               /\ ~combinedResult.built
               /\ lastCall.status = "error"
               /\ lastCall.message[2] = NoResultsMessage

\* C5 witness: a report was asked for over zero results and built nothing
C5_Witness ==
    /\ lastCall.tool = ReportTool
    /\ reportInput = <<>>
    /\ ~combinedResult.built

\* C6: a report call made while no result is accumulated throws an Error
\* whose message says that no analysis results are available, does not
\* invoke the renderer and leaves the accumulated list empty.
C6_NoResultsReported ==
    [][(analysisResults = <<>> /\ lastCall'.tool = ReportTool) =>
           /\ lastCall'.status = "error"
           /\ lastCall'.message = <<"Report generation failed: ", NoResultsMessage>>
           /\ ~lastCall'.rendered
           /\ analysisResults' = <<>>]_vars

\* C6 witness: the report call over an empty list ended in that error
C6_Witness ==
    /\ analysisResults = <<>>
    /\ lastCall.tool = ReportTool
    /\ lastCall.status = "error"
    /\ ~lastCall.rendered

-----------------------------------------------------------------------------
(* Properties of one static run, checked under Spec.                       *)

\* the project a static result was produced for: the run over its
\* directory that gave the result
ProjectOf(result) ==
    CHOOSE project \in Projects :
        /\ project.projectPath = result.projectPath
        /\ project.globError = Undefined
        /\ StaticAnalyze(project).result = result

\* the files of a project in the order the run takes them, each once
FilesInOrder(project) ==
    LET all == Concat(project.globbed)
        firsts == SelectSeq([i \in 1..Len(all) |-> [name |-> all[i], at |-> i]],
                            LAMBDA f : \A j \in 1..(f.at - 1) : all[j] # f.name)
    IN  [k \in 1..Len(firsts) |-> project.files[firsts[k].name]]

\* reading the file or analysing its content throws
FileFails(file) ==
    \/ ~file.readable
    \/ /\ file.path.ext = ".html"
       /\ \E i \in 1..Len(file.content) :
              file.content[i].tag = "input" /\ file.content[i].id = "a\"b"

\* the issues a file gives when it is analysed alone, by its kind
IssuesOfKind(file, relativePath) ==
    CASE file.path.ext = ".html" -> AnalyzeHtmlTemplate(file.content, relativePath)
      [] file.path.ext = ".ts" -> AnalyzeTypeScriptFile(file.content, relativePath)
      [] file.path.ext \in {".css", ".CSS"} -> AnalyzeCssFile(file.content, relativePath)
      [] OTHER -> <<>>

\* C16: the issues of a static result are, file after file in the order of
\* the run, the issues of the files that were read and analysed without an
\* error; a file that failed contributes none and the files after it are
\* still analysed; the only error a static run ends in is that of listing
\* the files.
C16_FileIsolation ==
    /\ \A r \in 1..Len(analysisResults) :
           analysisResults[r].analysisType = "static" =>
               LET project == ProjectOf(analysisResults[r])
                   files == FilesInOrder(project)
                   rel(file) == PathRelative(project.projectPath, file.path)
               IN  /\ analysisResults[r].issues
                          = Concat([k \in 1..Len(files) |->
                                       IF FileFails(files[k]) THEN <<>>
                                       ELSE IssuesOfKind(files[k], rel(files[k]))])
                   /\ \A k \in 1..Len(files) :
                          FileFails(files[k]) =>
                              \A n \in 1..Len(analysisResults[r].issues) :
                                  analysisResults[r].issues[n].file # rel(files[k])
    /\ (lastCall.tool = "analyze_static_accessibility" /\ lastCall.status = "error") =>
           \E project \in Projects :
               /\ project.globError # Undefined
               /\ lastCall.message = <<"Static analysis failed: ", project.globError>>

\* C16 witness: a run over a project with a file that cannot be read and a
\* file whose analysis throws returned the issues of the files before and
\* after them
C16_Witness ==
    /\ lastCall.tool = "analyze_static_accessibility"
    /\ lastCall.status = "ok"
    /\ \E r \in 1..Len(analysisResults) :
           /\ analysisResults[r].analysisType = "static"
           /\ LET project == ProjectOf(analysisResults[r])
                  files == FilesInOrder(project)
                  issues == analysisResults[r].issues
              IN  /\ \E j, k \in 1..Len(files) :
                         j # k /\ ~files[j].readable /\ files[k].readable /\ FileFails(files[k])
                  /\ \E n \in 1..Len(issues) : issues[n].file = <<"src/index", ".html">>
                  /\ \E n \in 1..Len(issues) : issues[n].file = <<"src/styles", ".CSS">>
                  /\ \A n \in 1..Len(issues) :
                         issues[n].file \notin {<<"src/broken", ".html">>, <<"src/quoted", ".html">>}

\* no two issues of the list carry the same id
IdsUnique(issues) ==
    \A i, j \in 1..Len(issues) : i # j => issues[i].id # issues[j].id

\* C17: in every result one static or one dynamic analysis produced, the
\* ids of the issues are pairwise different.
C17_IdsUnique ==
    \A r \in 1..Len(analysisResults) : IdsUnique(analysisResults[r].issues)

-----------------------------------------------------------------------------
(* Properties of the rule catalog, checked under SpecRules.                *)

\* C18: no two rules of allRules have the same id; the registry holds one
\* entry per rule; and for a rule r of the catalog getRuleById(r.id) is r
\* itself.
C18_RuleIdsUnique ==
    /\ \A i, j \in 1..Len(AllRules) : i # j => AllRules[i].id # AllRules[j].id
    /\ Cardinality(DOMAIN RuleRegistry) = Len(AllRules)
    /\ ruleCall.fn = "getRuleById" =>
           /\ \A i \in 1..Len(AllRules) : AllRules[i].id = ruleCall.arg => ruleCall.rule = i
           /\ (\A i \in 1..Len(AllRules) : AllRules[i].id # ruleCall.arg) => ruleCall.rule = 0

\* C18 witness: the lookup of the id of the last rule of the catalog gave
\* that rule, a rule of category color
C18_Witness ==
    /\ ruleCall.fn = "getRuleById"
    /\ ruleCall.arg = "color-only-info"
    /\ ruleCall.rule = Len(AllRules)
    /\ AllRules[ruleCall.rule].category = "color"

-----------------------------------------------------------------------------
(* Properties of one dynamic analysis, checked under SpecDyn.              *)

\* the call has returned or thrown
Completed(c) == calls[c].pc = "done"

\* analyzePage of the primary page of the call resolved / rejected
PrimarySucceeded(c) == Len(calls[c].analysed) >= 1 /\ calls[c].analysed[1].ok
PrimaryFailed(c) == Len(calls[c].analysed) >= 1 /\ ~calls[c].analysed[1].ok

\* the results the server holds for the url of the call
ResultsOf(c) == SelectSeq(analysisResults, LAMBDA r : r.url = <<"http://localhost:4200/", c>>)

\* C13: when the primary page of a call succeeded, every secondary page of
\* the call was taken, those after a failed page included; the call
\* returned, and its result holds, page after page, the issues of the
\* primary page and of the secondary pages that succeeded, and none for a
\* page that failed.
C13_SecondaryIsolated ==
    \A c \in Calls :
        (Completed(c) /\ PrimarySucceeded(c)) =>
            LET analysed == calls[c].analysed
            IN  /\ Len(analysed) = calls[c].pageCount + 1
                /\ calls[c].status = "ok"
                /\ Len(ResultsOf(c)) = 1
                /\ ResultsOf(c)[1].issues
                       = Concat([n \in 1..Len(analysed) |->
                                    IF analysed[n].ok
                                    THEN ConvertAxeResults(
                                             [url |-> "http://localhost:4200/",
                                              violations |-> IF n % 2 = 1 THEN OnePage
                                                             ELSE OtherPage])
                                    ELSE <<>>])

\* C13 witness: a call with two secondary pages whose first failed returned
\* the issues of the primary page and of the second
C13_Witness ==
    \E c \in Calls :
        /\ Completed(c)
        /\ calls[c].pageCount = 2
        /\ Len(calls[c].analysed) = 3
        /\ calls[c].analysed[1].ok
        /\ ~calls[c].analysed[2].ok
        /\ calls[c].analysed[3].ok
        /\ Len(ResultsOf(c)) = 1
        /\ Len(ResultsOf(c)[1].issues) = 4

C15_ResourcesReleased ==
    \A c \in Calls :
        Completed(c) =>
            /\ \A k \in 0..MaxPages : pageHandles[c][k].state # "open"
            /\ contexts[c].state # "open"
            /\ browsers[c].state # "open"
            /\ NoCallInFlight => (browser = NoObject /\ context = NoObject)

-----------------------------------------------------------------------------
(* Properties of interleaved dynamic analyses, checked under               *)
(* SpecDynInterleaved.                                                     *)

\* the call holds a browser of its own and has not begun its cleanup
UsesBrowser(c) ==
    calls[c].pc \in {"creatingContext", "openingPage", "auditing", "closingPage"}

\* the call holds a context of its own and has not begun its cleanup
UsesContext(c) ==
    /\ calls[c].pc \in {"openingPage", "auditing", "closingPage"}
    /\ contexts[c].state # "none"

\* C20: a call opens its pages in the context it created; while a call
\* uses its browser and its context the fields of the analyzer hold them;
\* a call closes only the context and the browser it created; and when a
\* call has completed, the browser and the context it created are closed,
\* by that call.
C20_CallsShareNothing ==
    \A c \in Calls :
        /\ \A k \in 0..MaxPages :
               pageHandles[c][k].state # "none" => pageHandles[c][k].context = c
        /\ UsesBrowser(c) => browser = c
        /\ UsesContext(c) => context = c
        /\ calls[c].pc \in {"closingContext", "closingBrowser"} => calls[c].awaited = c
        /\ contexts[c].closedBy \in {NoObject, c}
        /\ browsers[c].closedBy \in {NoObject, c}
        /\ Completed(c) =>
               /\ contexts[c].state # "none" => contexts[c] = [state |-> "closed", closedBy |-> c]
               /\ browsers[c].state # "none" => browsers[c] = [state |-> "closed", closedBy |-> c]

-----------------------------------------------------------------------------
(* Properties of the merge of a report, checked under Spec.                *)

\* how many times the issue x is in the list
Occurrences(issues, x) == Cardinality({n \in 1..Len(issues) : issues[n] = x})

\* one list holds the issues of the other, each as many times
IsPermutation(a, b) ==
    /\ Len(a) = Len(b)
    /\ \A n \in 1..Len(a) : Occurrences(a, a[n]) = Occurrences(b, a[n])

RECURSIVE SumOfLengths(_)
\* the sum of the lengths of the issue lists of the results
SumOfLengths(results) ==
    IF results = <<>> THEN 0
    ELSE Len(Head(results).issues) + SumOfLengths(Tail(results))

\* the results with a summary that disagrees with their issues
WithStaleSummaries(results) ==
    [i \in 1..Len(results) |->
        [results[i] EXCEPT !.summary = [AllZero EXCEPT !.total = 7, !.minor = 7]]]

\* C21: the issues of a combined result are a permutation of the
\* concatenation of the issue lists of the results it was built from; its
\* summary counts the issues of the merged list, so that its total is the
\* sum of the lengths of the issue lists; and the combined result is the
\* same when the summaries of the results disagree with their issues.
C21_MergedAndRecounted ==
    combinedResult.built =>
        LET combined == combinedResult.result
        IN  /\ IsPermutation(combined.issues, IssuesInOrder(reportInput))
            /\ combined.summary.total = SumOfLengths(reportInput)
            /\ \A s \in Severities :
                   combined.summary[s] = Len(OfSeverity(IssuesInOrder(reportInput), s))
            /\ Aggregate(reportInput) = combined
            /\ Aggregate(WithStaleSummaries(reportInput)) = combined

\* C21 witness: two results with issues were merged, the sort reordered
\* them, and the total is that of both lists
C21_Witness ==
    /\ combinedResult.built
    /\ Len(reportInput) = 2
    /\ reportInput[1].issues # <<>>
    /\ reportInput[2].issues # <<>>
    /\ combinedResult.result.issues # IssuesInOrder(reportInput)
    /\ combinedResult.result.summary.total
           = Len(reportInput[1].issues) + Len(reportInput[2].issues)

\* C22: after a report call, whether it returned or threw, the accumulated
\* list is what it was before the call: the same results, each with its
\* issues in the same order, its summary and every field of every issue;
\* the sorted list of the combined result is a list of its own.
C22_NoUpdateInPlace ==
    lastCall.tool = ReportTool =>
        /\ analysisResults = reportInput
        /\ combinedResult.built =>
               /\ combinedResult.result = Aggregate(reportInput)
               /\ IsRanked(combinedResult.result.issues)

\* C22 witness: a report merged a first result whose own issues are not in
\* rank order and sorted them in the combined result, then failed in the
\* renderer; the result has kept its order
C22_Witness ==
    /\ lastCall.tool = ReportTool
    /\ combinedResult.built
    /\ Len(analysisResults) = 2
    /\ ~IsRanked(analysisResults[1].issues)
    /\ IsRanked(combinedResult.result.issues)
    /\ lastCall.rendered
    /\ lastCall.status = "error"

-----------------------------------------------------------------------------
(* Properties of the analysis of one stylesheet or one component source,   *)
(* checked under SpecFile.                                                 *)

\* the stylesheet has an `outline: none` declaration
RemovesOutline(css) == \E i \in 1..Len(css) : css[i] \in {"outline: none", "outline:none"}

\* the stylesheet has one of the focus-state selectors
HasFocusSelector(css) ==
    \E i \in 1..Len(css) : css[i] \in {":focus", ":focus-visible", ":focus-within"}

\* C23: a stylesheet gets one outline-none issue (serious, 2.4.7, AA) iff it
\* has at least one `outline: none` declaration and nowhere one of the
\* selectors :focus, :focus-visible, :focus-within; otherwise it gets no
\* issue, however many such declarations it has and wherever the selector
\* stands.
C23_OutlineNoneFileWide ==
    (srcPc = "done" /\ srcFile.kind = "css") =>
        LET css == srcFile.css
        IN  IF RemovesOutline(css) /\ ~HasFocusSelector(css)
            THEN /\ Len(srcIssues) = 1
                 /\ srcIssues[1].id = <<"outline-none-focus">>
                 /\ srcIssues[1].severity = "serious"
                 /\ srcIssues[1].wcagCriterion = Criterion247
                 /\ srcIssues[1].wcagLevel = "AA"
                 /\ srcIssues[1].file = CssFile
            ELSE srcIssues = <<>>

\* C23 witness: a stylesheet with two `outline: none` declarations and no
\* focus selector was analysed and got its one issue
C23_Witness ==
    /\ srcPc = "done"
    /\ srcFile.kind = "css"
    /\ Cardinality({i \in 1..Len(srcFile.css) :
                       srcFile.css[i] \in {"outline: none", "outline:none"}}) >= 2
    /\ ~HasFocusSelector(srcFile.css)
    /\ Len(srcIssues) = 1

\* the *ngFor occurrences without trackBy, in order
WithoutTrackBy(ngFors) ==
    SelectSeq(ngFors, LAMBDA m : m = "*ngFor=\"let item of items\"")

\* C24: a component source without a framework marker gets no issue; one
\* with a marker gets the issues of the markup checks on its inline
\* template, if it has one, followed by one minor 2.4.3 issue for each
\* *ngFor occurrence without trackBy, in order, and none for an occurrence
\* with trackBy; the analysis throws only when that of the template does.
C24_ComponentSource ==
    srcFile.kind = "ts" =>
        LET ts == srcFile.ts
            marked == ts.markers # {}
            templateIssues ==
                IF ts.hasTemplate THEN AnalyzeHtmlTemplate(ts.template, ComponentFile)
                ELSE <<>>
            flagged == WithoutTrackBy(ts.ngFors)
            rest == SubSeq(srcIssues, Len(templateIssues) + 1, Len(srcIssues))
        IN  /\ (srcPc = "done" /\ ~marked) => srcIssues = <<>>
            /\ (srcPc = "done" /\ marked) =>
                   /\ Len(srcIssues) = Len(templateIssues) + Len(flagged)
                   /\ SubSeq(srcIssues, 1, Len(templateIssues)) = templateIssues
                   /\ \A k \in 1..Len(flagged) :
                          /\ rest[k].id[1] = "ngfor-trackby"
                          /\ rest[k].severity = "minor"
                          /\ rest[k].wcagCriterion = Criterion243
                          /\ rest[k].element = <<flagged[k]>>
                          /\ rest[k].file = ComponentFile
            /\ srcPc = "threw" =>
                   marked /\ ts.hasTemplate /\ HtmlTemplateThrows(ts.template)

\* C24 witness: a source marked by templateUrl alone, with an inline
\* template that has issues, one *ngFor with trackBy and one without, was
\* analysed
C24_Witness ==
    /\ srcPc = "done"
    /\ srcFile.kind = "ts"
    /\ srcFile.ts.markers = {"templateUrl"}
    /\ srcFile.ts.hasTemplate
    /\ AnalyzeHtmlTemplate(srcFile.ts.template, ComponentFile) # <<>>
    /\ Len(srcFile.ts.ngFors) = 2
    /\ Len(WithoutTrackBy(srcFile.ts.ngFors)) = 1
    /\ srcIssues[Len(srcIssues)].severity = "minor"

-----------------------------------------------------------------------------
(* Properties of the files of a static run, checked under Spec.            *)

\* the issues of a list that name the file
IssuesOfFile(issues, relativePath) == SelectSeq(issues, LAMBDA x : x.file = relativePath)

\* the run over the directory of the project with the one file alone
FileAlone(project, name) == [project EXCEPT !.globbed = <<<<name>>>>]

\* the path the issues of a file of the project name
RelativePathOf(project, name) == PathRelative(project.projectPath, project.files[name].path)

\* C25: the issues a file contributes to a static result are the issues of
\* a run over that file alone, whatever files were analysed before it; and
\* two accumulated static results over one directory hold the same issues
\* for each file both have analysed, whatever the order of the files.
C25_FileScoped ==
    \A r \in 1..Len(analysisResults) :
        analysisResults[r].analysisType = "static" =>
            LET project == ProjectOf(analysisResults[r])
                files == FindFiles(project)
            IN  /\ \A k \in 1..Len(files) :
                       IssuesOfFile(analysisResults[r].issues, RelativePathOf(project, files[k]))
                           = StaticAnalyze(FileAlone(project, files[k])).result.issues
                /\ \A q \in 1..Len(analysisResults) :
                       (/\ analysisResults[q].analysisType = "static"
                        /\ analysisResults[q].projectPath = analysisResults[r].projectPath) =>
                           LET other == FindFiles(ProjectOf(analysisResults[q]))
                           IN  \A k \in 1..Len(files) :
                                   (\E j \in 1..Len(other) : other[j] = files[k]) =>
                                       IssuesOfFile(analysisResults[q].issues,
                                                    RelativePathOf(project, files[k]))
                                           = IssuesOfFile(analysisResults[r].issues,
                                                          RelativePathOf(project, files[k]))

\* C25 witness: one directory was analysed twice, its two markup files
\* with headings and its two stylesheets in opposite orders, and both
\* results hold issues of the markup file that comes second in one and
\* first in the other
C25_Witness ==
    /\ Len(analysisResults) = 2
    /\ analysisResults[1].analysisType = "static"
    /\ analysisResults[2].analysisType = "static"
    /\ analysisResults[1].projectPath = analysisResults[2].projectPath
    /\ analysisResults[1].issues # analysisResults[2].issues
    /\ LET first == FindFiles(ProjectOf(analysisResults[1]))
           second == FindFiles(ProjectOf(analysisResults[2]))
       IN  /\ first = <<"index", "about", "styles", "theme">>
           /\ second = <<"theme", "styles", "about", "index">>
    /\ IssuesOfFile(analysisResults[1].issues, <<"src/about", ".html">>) # <<>>
    /\ IssuesOfFile(analysisResults[2].issues, <<"src/styles", ".CSS">>) # <<>>

-----------------------------------------------------------------------------
(* Properties of the categories and of the predicates of the catalog,      *)
(* checked under SpecRules.                                                *)

\* the categories the catalog is said to be partitioned by
PartitionCategories == {"html", "aria", "angular", "keyboard", "color"}

\* the rules getRulesByCategory returns for the categories of a set
RulesOfCategories(categories) ==
    UNION {{GetRulesByCategory(c)[k] : k \in 1..Len(GetRulesByCategory(c))} : c \in categories}

\* C26: every rule of allRules has one of the categories html, aria,
\* angular, keyboard and color; the rules getRulesByCategory returns for
\* these five are the whole catalog; and a lookup by any other category
\* returns no rule.
C26_CategoryPartition ==
    ruleCall.fn = "getRulesByCategory" =>
        /\ \A i \in 1..Len(AllRules) : AllRules[i].category \in PartitionCategories
        /\ RulesOfCategories(PartitionCategories) = 1..Len(AllRules)
        /\ ruleCall.arg \notin PartitionCategories => ruleCall.rules = <<>>

\* the element is one the rule with the given id is about
Targets(id, element) ==
    CASE id = "img-alt" -> element.tagName = "IMG"
      [] id = "form-labels" -> element.tagName = "INPUT" /\ element.type \in TextLikeTypes
      [] id = "button-name" -> element.tagName = "BUTTON"
      [] id = "aria-labels" ->
             element.role \in {"button", "link", "menuitem", "option", "tab", "treeitem"}
      [] id = "aria-expanded" -> element.role = "button" /\ Truthy(element.ariaControls)
      [] id = "keyboard-focus" ->
             element.tagName \in {"A", "BUTTON", "INPUT", "SELECT", "TEXTAREA"}
      [] OTHER -> FALSE

\* C30: the predicate of a rule of the catalog, applied to an element the
\* rule is not about, says the element is compliant; the predicate of
\* img-alt says so for every element that is not an img.
C30_NonTargetCompliant ==
    ruleCall.fn = "check" =>
        /\ ~Targets(ruleCall.arg, ruleElement) => ruleCall.compliant
        /\ (ruleCall.arg = "img-alt" /\ ruleElement.tagName # "IMG") => ruleCall.compliant

-----------------------------------------------------------------------------
(* Properties of the guideline cache, checked under SpecWcag.              *)

\* C27: a getGuidelines call made while the cached record is missing or
\* older than 24 hours fetches the guidelines, and no getGuidelines call of
\* a process returns guidelines that were fetched more than 24 hours
\* before the call.
C27_GuidelinesFresh ==
    wcagCall.status = "ok" =>
        /\ wcagCall.stale => wcagCall.fetched
        /\ wcagCall.at - wcagCall.guidelines.loadedAt <= CacheMaxAge

\* a dynamic analysis completes in this step
DynamicCompletes(c) == calls[c].pc = "returning" /\ calls'[c].pc = "done"

\* a static analysis completes in this step
StaticCompletes ==
    /\ lastCall'.tool = "analyze_static_accessibility"
    /\ calls' = calls
    /\ report' = report
    /\ <<reportInput', combinedResult'>> = <<reportInput, combinedResult>>

\* C28: the accumulated result list grows only on success. A step in which
\* a static or a dynamic analysis fails leaves analysisResults unchanged, a
\* step in which one succeeds appends exactly the result of that analysis at
\* the end, and no other step changes the list; so the list holds the
\* results of the successful analyses in the order they completed in.
C28_GrowsOnlyOnSuccess ==
    [][/\ \A c \in Calls :
            DynamicCompletes(c) =>
                IF calls'[c].status = "ok"
                THEN analysisResults' =
                         Append(analysisResults, DynamicResult(c, calls[c].allIssues))
                ELSE analysisResults' = analysisResults
       /\ StaticCompletes =>
            IF lastCall'.status = "ok"
            THEN \E project \in ServerProjects :
                    /\ StaticAnalyze(project).ok
                    /\ analysisResults' =
                           Append(analysisResults, StaticAnalyze(project).result)
            ELSE analysisResults' = analysisResults
       /\ analysisResults' # analysisResults =>
            \/ \E c \in Calls : DynamicCompletes(c) /\ calls'[c].status = "ok"
            \/ StaticCompletes /\ lastCall'.status = "ok"]_vars

\* C28: a static analysis that was called after a dynamic one had started
\* and completed before it is first in the list, and a static analysis that
\* failed after both left the list as it was
C28_Witness ==
    /\ Len(analysisResults) = 2
    /\ analysisResults[1].analysisType = "static"
    /\ analysisResults[2] = DynamicResult(1, calls[1].allIssues)
    /\ calls[1].allIssues # <<>>
    /\ lastCall.tool = "analyze_static_accessibility"
    /\ lastCall.status = "error"

\* the first list is the beginning of the second
IsPrefixOf(a, b) == Len(a) <= Len(b) /\ SubSeq(b, 1, Len(a)) = a

\* the call is between its start and its return
InFlight(c) == calls[c].pc \notin {"idle", "done"}

\* the result is the whole result of an analysis that has completed
IsCompleteResult(result) ==
    IF result.analysisType = "dynamic"
    THEN \E c \in Calls : /\ calls[c].pc = "done"
                          /\ calls[c].status = "ok"
                          /\ result = DynamicResult(c, calls[c].allIssues)
    ELSE \E project \in ServerProjects : /\ StaticAnalyze(project).ok
                                         /\ result = StaticAnalyze(project).result

\* C29: a report reads the accumulated results as an atomic snapshot. The
\* combined result of a report, also of one that is made while analyses are
\* in flight, holds the issues of the results that were in the list at its
\* merge step, each as many times and no other: every merged result is the
\* whole result of an analysis that had completed, none is a part of what an
\* analysis in flight has found. Nothing is ever removed from the list: it
\* only grows at its end, and a later report merges everything an earlier
\* one did.
C29_AtomicSnapshot ==
    /\ [](combinedResult.built =>
            /\ IsPrefixOf(reportInput, analysisResults)
            /\ IsPermutation(combinedResult.result.issues, IssuesInOrder(reportInput))
            /\ \A i \in 1..Len(reportInput) :
                 /\ IsCompleteResult(reportInput[i])
                 /\ reportInput[i].analysisType = "dynamic" =>
                        \A c \in Calls : InFlight(c) => reportInput[i].url # CallUrl(c))
    /\ [][/\ IsPrefixOf(analysisResults, analysisResults')
          /\ (report.pc = "idle" /\ report'.pc = "rendering") =>
                /\ reportInput' = analysisResults
                /\ combinedResult'.result = Aggregate(analysisResults)
                /\ IsPrefixOf(reportInput, reportInput')]_vars

\* C29: a report whose renderer has not settled merged the results of a
\* static analysis while a dynamic analysis in flight had already found
\* issues, and these are not in the combined result
C29_Witness ==
    /\ report.pc = "rendering"
    /\ combinedResult.built
    /\ combinedResult.result.issues # <<>>
    /\ \E c \in Calls :
         /\ InFlight(c)
         /\ calls[c].allIssues # <<>>
         /\ \A n \in 1..Len(calls[c].allIssues) :
              Occurrences(combinedResult.result.issues, calls[c].allIssues[n]) = 0

====
